---- MODULE Spec2Model ----
(***************************************************************************)
(* Model of SkillMatch AI (src/utils.py, src/app.py): the resume-to-job    *)
(* scoring core, its similarity cache, and the start-up of the language    *)
(* model.                                                                  *)
(*                                                                         *)
(* Representation.                                                         *)
(*   - A Python str is a sequence of one-character strings.                *)
(*   - A Python value that may be None, a str, an int or a float is a      *)
(*     tagged record [t, s, n] (PyNone, PyStr, PyInt, PyFloat).                *)
(*   - A score (a float rounded to 2 decimals) is an integer number of     *)
(*     hundredths of a percent: 66.67 is 6667.                             *)
(*   - A cosine returned by the embedding backend is an integer number of  *)
(*     1e-5 units: 1.0 is 100000, so cosine * 100 is cos5 / 10 hundredths. *)
(*   - A Python dict is a TLA+ record whose DOMAIN is its set of keys.     *)
(***************************************************************************)
EXTENDS Integers, Sequences, FiniteSets, TLC

(***************************************************************************)
(* Characters and the str methods the code uses.                           *)
(***************************************************************************)
Uppers == <<"A","B","C","D","E","F","G","H","I","J","K","L","M",
            "N","O","P","Q","R","S","T","U","V","W","X","Y","Z">>

Lowers == <<"a","b","c","d","e","f","g","h","i","j","k","l","m",
            "n","o","p","q","r","s","t","u","v","w","x","y","z">>

DigitChars == {"0","1","2","3","4","5","6","7","8","9"}

Range(f) == {f[i] : i \in DOMAIN f}

IsUpper(c) == c \in Range(Uppers)

IsLower(c) == c \in Range(Lowers)

IsAlpha(c) == IsUpper(c) \/ IsLower(c)

\* str.isspace for one character
IsSpace(c) == c \in {" ", "\t", "\n", "\r"}

\* the regex class \w
IsWordChar(c) == IsAlpha(c) \/ c \in DigitChars \/ c = "_"

LowerChar(c) == IF IsUpper(c) THEN Lowers[CHOOSE i \in DOMAIN Uppers : Uppers[i] = c] ELSE c

UpperChar(c) == IF IsLower(c) THEN Uppers[CHOOSE i \in DOMAIN Lowers : Lowers[i] = c] ELSE c

\* str.lower()
StrLower(s) == [i \in 1..Len(s) |-> LowerChar(s[i])]

\* str.title(): the first letter of every run of letters upper, the others lower
StrTitle(s) ==
    [i \in 1..Len(s) |->
        IF i = 1 \/ ~IsAlpha(s[IF i = 1 THEN 1 ELSE i - 1])
        THEN UpperChar(s[i]) ELSE LowerChar(s[i])]

Min(a, b) == IF a < b THEN a ELSE b

\* s[:n]
Truncate(s, n) == SubSeq(s, 1, Min(Len(s), n))

\* str.strip()
Strip(s) ==
    LET keep == {i \in 1..Len(s) : ~IsSpace(s[i])}
    IN  IF keep = {} THEN <<>>
        ELSE SubSeq(s, CHOOSE i \in keep : \A j \in keep : i <= j,
                       CHOOSE i \in keep : \A j \in keep : i >= j)

\* needle in hay
Contains(hay, needle) ==
    \E i \in 0..(Len(hay) - Len(needle)) : SubSeq(hay, i + 1, i + Len(needle)) = needle

\* the regex assertion \b at offset i of s (between s[i] and s[i+1])
WordBoundaryAt(s, i) ==
    LET before == i >= 1 /\ IsWordChar(s[i])
        after  == i < Len(s) /\ IsWordChar(s[i + 1])
    IN  before # after

\* re.search(rf'\b{re.escape(needle)}\b', hay)
WordBoundarySearch(hay, needle) ==
    \E i \in 0..(Len(hay) - Len(needle)) :
        /\ SubSeq(hay, i + 1, i + Len(needle)) = needle
        /\ WordBoundaryAt(hay, i)
        /\ WordBoundaryAt(hay, i + Len(needle))

\* str.split(sep) for a one-character separator: always at least one token
RECURSIVE SplitOn(_, _)
SplitOn(s, sep) ==
    LET hits == {i \in 1..Len(s) : s[i] = sep}
    IN  IF hits = {} THEN <<s>>
        ELSE LET i == CHOOSE k \in hits : \A j \in hits : k <= j
             IN  <<SubSeq(s, 1, i - 1)>> \o SplitOn(SubSeq(s, i + 1, Len(s)), sep)

\* str.split(): the maximal runs of non-whitespace characters
RECURSIVE SplitWhitespace(_)
SplitWhitespace(s) ==
    LET t == Strip(s)
        gaps == {i \in 1..Len(t) : IsSpace(t[i])}
    IN  IF t = <<>> THEN <<>>
        ELSE IF gaps = {} THEN <<t>>
        ELSE LET i == CHOOSE k \in gaps : \A j \in gaps : k <= j
             IN  <<SubSeq(t, 1, i - 1)>> \o SplitWhitespace(SubSeq(t, i + 1, Len(t)))

\* " ".join(list)
RECURSIVE JoinSpace(_)
JoinSpace(list) ==
    IF list = <<>> THEN <<>>
    ELSE IF Len(list) = 1 THEN list[1]
    ELSE list[1] \o <<" ">> \o JoinSpace(Tail(list))

\* x in list
InList(x, list) == \E i \in DOMAIN list : list[i] = x

(***************************************************************************)
(* difflib.SequenceMatcher(None, a, b).ratio(): 2 * M / (len(a) + len(b)), *)
(* M the total size of the matching blocks found by taking the longest     *)
(* common block (earliest in a, then earliest in b) and recursing on both  *)
(* sides of it.  The ratio is kept as the pair <<2 * M, len(a) + len(b)>>. *)
(***************************************************************************)
\* length of the common run of a from i+1 and b from j+1
RECURSIVE CommonRun(_, _, _, _)
CommonRun(a, b, i, j) ==
    IF i < Len(a) /\ j < Len(b) /\ a[i + 1] = b[j + 1]
    THEN 1 + CommonRun(a, b, i + 1, j + 1) ELSE 0

\* find_longest_match over the whole of a and b: <<i, j, k>>, 0-based starts
FindLongestMatch(a, b) ==
    LET starts == (0..(Len(a) - 1)) \X (0..(Len(b) - 1))
        best == CHOOSE p \in starts :
                    \A q \in starts :
                        LET kp == CommonRun(a, b, p[1], p[2])
                            kq == CommonRun(a, b, q[1], q[2])
                        IN  \/ kp > kq
                            \/ /\ kp = kq
                               /\ \/ p[1] < q[1]
                                  \/ p[1] = q[1] /\ p[2] <= q[2]
    IN  IF starts = {} THEN <<0, 0, 0>>
        ELSE <<best[1], best[2], CommonRun(a, b, best[1], best[2])>>

RECURSIVE MatchingSize(_, _)
MatchingSize(a, b) ==
    LET m == FindLongestMatch(a, b)
    IN  IF m[3] = 0 THEN 0
        ELSE m[3]
             + MatchingSize(SubSeq(a, 1, m[1]), SubSeq(b, 1, m[2]))
             + MatchingSize(SubSeq(a, m[1] + m[3] + 1, Len(a)),
                            SubSeq(b, m[2] + m[3] + 1, Len(b)))

\* ratio() as the fraction <<numerator, denominator>>; 1.0 for two empty strings
Ratio(a, b) ==
    IF Len(a) + Len(b) = 0 THEN <<1, 1>> ELSE <<2 * MatchingSize(a, b), Len(a) + Len(b)>>

\* ratio > num/den for a threshold written as a decimal fraction
RatioAbove(r, num, den) == r[1] * den > num * r[2]

(***************************************************************************)
(* Python values and numbers.                                              *)
(***************************************************************************)
PyNone == [t |-> "none", s |-> <<>>, n |-> 0]

PyStr(x) == [t |-> "str", s |-> x, n |-> 0]

PyInt(x) == [t |-> "int", s |-> <<>>, n |-> x]

\* a float with two decimals, in hundredths
PyFloat(x) == [t |-> "float", s |-> <<>>, n |-> x]

IsStr(v) == v.t = "str"

\* bool(v), as in `if not v`
Truthy(v) ==
    CASE v.t = "none" -> FALSE
      [] v.t = "str" -> v.s # <<>>
      [] OTHER -> v.n # 0

DigitSeq == <<"0","1","2","3","4","5","6","7","8","9">>

RECURSIVE IntDigits(_)
IntDigits(n) ==
    IF n < 10 THEN <<DigitSeq[n + 1]>> ELSE IntDigits(n \div 10) \o <<DigitSeq[(n % 10) + 1]>>

\* str(v) for None, a str or a non-negative int
StrOf(v) ==
    CASE v.t = "str" -> v.s
      [] v.t = "none" -> <<"N","o","n","e">>
      [] OTHER -> IntDigits(v.n)

\* round(num / den) to the nearest integer, ties to even (den > 0)
RoundHalfEven(num, den) ==
    LET q == num \div den
        r == num - q * den
    IN  IF 2 * r < den THEN q
        ELSE IF 2 * r > den THEN q + 1
        ELSE IF q % 2 = 0 THEN q ELSE q + 1

(***************************************************************************)
(* Config (src/utils.py)                                                   *)
(***************************************************************************)
MAX_TEXT_LENGTH == 5000

\* 0.8 as a fraction
FUZZY_MATCH_THRESHOLD == <<8, 10>>

CACHE_SIZE == 100

\* 0.6 as a fraction
JOB_ROLE_SIMILARITY_THRESHOLD == <<6, 10>>

(***************************************************************************)
(* extract_skills                                                          *)
(***************************************************************************)
\* [s.strip() for s in text.split(",") if s.strip()]
RECURSIVE StripNonEmpty(_)
StripNonEmpty(tokens) ==
    IF tokens = <<>> THEN <<>>
    ELSE (IF Strip(tokens[1]) # <<>> THEN <<Strip(tokens[1])>> ELSE <<>>)
         \o StripNonEmpty(Tail(tokens))

\* the tokens stripped, the empty ones kept
ParseSkillsKeepEmpty(text) ==
    [i \in DOMAIN SplitOn(text, ",") |-> Strip(SplitOn(text, ",")[i])]

ParseSkills(text) == StripNonEmpty(SplitOn(text, ","))

\* the fuzzy pass taking a ratio equal to the threshold as a match
FuzzyMatchAtThreshold(skill_lower, resume_text_lower) ==
    LET words == SplitWhitespace(resume_text_lower)
    IN  \E i \in DOMAIN words :
            /\ Len(words[i]) > 2
            /\ ~RatioAbove(<<FUZZY_MATCH_THRESHOLD[1], FUZZY_MATCH_THRESHOLD[2]>>,
                           Ratio(skill_lower, words[i])[1], Ratio(skill_lower, words[i])[2])

\* the fuzzy pass: some resume word longer than 2 is closer than the threshold
FuzzyMatch(skill_lower, resume_text_lower) ==
    LET words == SplitWhitespace(resume_text_lower)
    IN  \E i \in DOMAIN words :
            /\ Len(words[i]) > 2
            /\ RatioAbove(Ratio(skill_lower, words[i]),
                          FUZZY_MATCH_THRESHOLD[1], FUZZY_MATCH_THRESHOLD[2])

\* the body of the loop: is this required skill appended to matched_skills
SkillMatches(skill, resume_text_lower) ==
    LET skill_lower == StrLower(Strip(skill))
    IN  /\ skill_lower # <<>>
        /\ \/ WordBoundarySearch(resume_text_lower, skill_lower)
           \/ Contains(resume_text_lower, skill_lower)
           \/ FuzzyMatch(skill_lower, resume_text_lower)

\* a loop that appends a matching skill only when it is not yet in the list
RECURSIVE MatchedSkillsOnce(_, _)
MatchedSkillsOnce(job_skills_list, resume_text_lower) ==
    IF job_skills_list = <<>> THEN <<>>
    ELSE LET n == Len(job_skills_list)
             before == MatchedSkillsOnce(SubSeq(job_skills_list, 1, n - 1),
                                         resume_text_lower)
         IN  IF SkillMatches(job_skills_list[n], resume_text_lower)
                /\ ~InList(job_skills_list[n], before)
             THEN Append(before, job_skills_list[n]) ELSE before

RECURSIVE MatchedSkills(_, _)
MatchedSkills(job_skills_list, resume_text_lower) ==
    IF job_skills_list = <<>> THEN <<>>
    ELSE (IF SkillMatches(job_skills_list[1], resume_text_lower)
          THEN <<job_skills_list[1]>> ELSE <<>>)
         \o MatchedSkills(Tail(job_skills_list), resume_text_lower)

\* extract_skills raises (AttributeError on .lower()) for a truthy non-str resume
ExtractSkillsRaises(resume_text, jd_skills) ==
    Truthy(resume_text) /\ Truthy(jd_skills) /\ ~IsStr(resume_text)

ExtractSkills(resume_text, jd_skills) ==
    IF ~Truthy(resume_text) \/ ~Truthy(jd_skills) THEN <<>>
    ELSE MatchedSkills(ParseSkills(StrOf(jd_skills)), StrLower(resume_text.s))

(***************************************************************************)
(* extract_skills_advanced.  skill_patterns is a Python set of str: the    *)
(* order in which the loop visits it is decided by the string hash seed of *)
(* the process, so the order is an input of the model (hash_seed).         *)
(***************************************************************************)
\* the terms of the set literal, as written
skill_patterns ==
    <<<<"p","y","t","h","o","n">>,
      <<"j","a","v","a">>,
      <<"j","a","v","a","s","c","r","i","p","t">>,
      <<"t","y","p","e","s","c","r","i","p","t">>,
      <<"c","+","+">>,
      <<"c","#">>,
      <<"p","h","p">>,
      <<"r","u","b","y">>,
      <<"g","o">>,
      <<"r","u","s","t">>,
      <<"r","e","a","c","t">>,
      <<"a","n","g","u","l","a","r">>,
      <<"v","u","e">>,
      <<"n","o","d","e",".","j","s">>,
      <<"e","x","p","r","e","s","s">>,
      <<"d","j","a","n","g","o">>,
      <<"f","l","a","s","k">>,
      <<"s","p","r","i","n","g">>,
      <<"h","t","m","l">>,
      <<"c","s","s">>,
      <<"s","a","s","s">>,
      <<"l","e","s","s">>,
      <<"b","o","o","t","s","t","r","a","p">>,
      <<"t","a","i","l","w","i","n","d">>,
      <<"m","y","s","q","l">>,
      <<"p","o","s","t","g","r","e","s","q","l">>,
      <<"m","o","n","g","o","d","b">>,
      <<"r","e","d","i","s">>,
      <<"e","l","a","s","t","i","c","s","e","a","r","c","h">>,
      <<"s","q","l">>,
      <<"a","w","s">>,
      <<"a","z","u","r","e">>,
      <<"g","c","p">>,
      <<"d","o","c","k","e","r">>,
      <<"k","u","b","e","r","n","e","t","e","s">>,
      <<"j","e","n","k","i","n","s">>,
      <<"g","i","t">>,
      <<"g","i","t","h","u","b">>,
      <<"m","a","c","h","i","n","e"," ","l","e","a","r","n","i","n","g">>,
      <<"d","e","e","p"," ","l","e","a","r","n","i","n","g">>,
      <<"a","r","t","i","f","i","c","i","a","l"," ","i","n","t","e","l","l","i","g","e","n","c","e">>,
      <<"n","l","p">>,
      <<"t","e","n","s","o","r","f","l","o","w">>,
      <<"p","y","t","o","r","c","h">>,
      <<"s","c","i","k","i","t","-","l","e","a","r","n">>,
      <<"p","a","n","d","a","s">>,
      <<"n","u","m","p","y">>,
      <<"a","g","i","l","e">>,
      <<"s","c","r","u","m">>,
      <<"d","e","v","o","p","s">>,
      <<"c","i","/","c","d">>,
      <<"m","i","c","r","o","s","e","r","v","i","c","e","s">>,
      <<"a","p","i">>,
      <<"r","e","s","t">>,
      <<"g","r","a","p","h","q","l">>,
      <<"u","i","/","u","x">>,
      <<"f","i","g","m","a">>,
      <<"s","k","e","t","c","h">>,
      <<"a","d","o","b","e">>,
      <<"p","h","o","t","o","s","h","o","p">>>>

\* the order in which a process with this hash seed iterates the set: the
\* p-th term visited, as a position of skill_patterns
SetOrder(hash_seed) ==
    [p \in 1..Len(skill_patterns) |->
        (((p - 1) * hash_seed) % Len(skill_patterns)) + 1]

\* list(dict.fromkeys(list)): the first occurrence of every entry
RECURSIVE DictFromKeys(_)
DictFromKeys(list) ==
    IF list = <<>> THEN <<>>
    ELSE LET rest == DictFromKeys(SubSeq(list, 1, Len(list) - 1))
         IN  IF InList(list[Len(list)], rest) THEN rest
             ELSE Append(rest, list[Len(list)])

\* re.search(rf'\b{re.escape(skill.lower())}\b', text_lower) for the term at i
PatternFound(text_lower, i) == WordBoundarySearch(text_lower, StrLower(skill_patterns[i]))

\* skills_found, given the set `found` of the positions of the terms found
SkillsFound(found, order) ==
    [k \in 1..Len(SelectSeq(order, LAMBDA i : i \in found)) |->
        StrTitle(skill_patterns[SelectSeq(order, LAMBDA i : i \in found)[k]])]

ExtractSkillsAdvanced(text, hash_seed) ==
    IF ~Truthy(text) \/ ~IsStr(text) THEN <<>>
    ELSE DictFromKeys(SkillsFound({i \in DOMAIN skill_patterns :
                                     PatternFound(StrLower(text.s), i)},
                                  SetOrder(hash_seed)))

(***************************************************************************)
(* ResumeProcessor.get_similarity_score with its lru_cache, get_match_score*)
(*                                                                         *)
(* The embedding backend is an input of the model: `be` says whether one   *)
(* of its three calls raises (fail) and which cosine Doc.similarity        *)
(* returns (cos, in 1e-5 units).  An outcome is a record                   *)
(*   [ret: hundredths, raised: BOOLEAN, docs: the texts given to nlp,      *)
(*    failed: the backend raised and the except branch of                  *)
(*    get_similarity_score ran, cache: the cache afterwards].              *)
(* The cache is the sequence of its entries, most recently used first.     *)
(***************************************************************************)
\* the body with `not resume_text or not job_desc` in place of the .strip() tests
SimilarityBodyNoStrip(nlp, resume_text, job_desc, be) ==
    LET resume_doc == Truncate(StrLower(resume_text.s), MAX_TEXT_LENGTH)
        job_doc    == Truncate(StrLower(job_desc.s), MAX_TEXT_LENGTH)
    IN  IF nlp # "loaded" \/ ~Truthy(resume_text) \/ ~Truthy(job_desc)
        THEN [ret |-> 0, raised |-> FALSE, docs |-> <<>>, failed |-> FALSE]
        ELSE IF be.fail = "resume_doc"
             THEN [ret |-> 0, raised |-> FALSE, docs |-> <<resume_doc>>, failed |-> TRUE]
        ELSE IF be.fail \in {"job_doc", "similarity"}
             THEN [ret |-> 0, raised |-> FALSE, docs |-> <<resume_doc, job_doc>>,
                   failed |-> TRUE]
        ELSE [ret |-> RoundHalfEven(be.cos, 10), raised |-> FALSE,
              docs |-> <<resume_doc, job_doc>>, failed |-> FALSE]

\* the body of get_similarity_score, without the cache
SimilarityBody(nlp, resume_text, job_desc, be) ==
    LET resume_doc == Truncate(StrLower(resume_text.s), MAX_TEXT_LENGTH)
        job_doc    == Truncate(StrLower(job_desc.s), MAX_TEXT_LENGTH)
    IN  IF nlp # "loaded" THEN [ret |-> 0, raised |-> FALSE, docs |-> <<>>, failed |-> FALSE]
        ELSE IF ~IsStr(resume_text) THEN [ret |-> 0, raised |-> TRUE, docs |-> <<>>, failed |-> FALSE]
        ELSE IF Strip(resume_text.s) = <<>> THEN [ret |-> 0, raised |-> FALSE, docs |-> <<>>, failed |-> FALSE]
        ELSE IF ~IsStr(job_desc) THEN [ret |-> 0, raised |-> TRUE, docs |-> <<>>, failed |-> FALSE]
        ELSE IF Strip(job_desc.s) = <<>> THEN [ret |-> 0, raised |-> FALSE, docs |-> <<>>, failed |-> FALSE]
        ELSE IF be.fail = "resume_doc"
             THEN [ret |-> 0, raised |-> FALSE, docs |-> <<resume_doc>>, failed |-> TRUE]
        ELSE IF be.fail \in {"job_doc", "similarity"}
             THEN [ret |-> 0, raised |-> FALSE, docs |-> <<resume_doc, job_doc>>,
                   failed |-> TRUE]
        ELSE [ret |-> RoundHalfEven(be.cos, 10), raised |-> FALSE,
              docs |-> <<resume_doc, job_doc>>, failed |-> FALSE]

\* a lookup keyed by the resume text alone
CacheIndexByResume(cache, resume_text, job_desc) ==
    LET hits == {i \in DOMAIN cache : cache[i].key[1] = resume_text}
    IN  IF hits = {} THEN 0 ELSE CHOOSE i \in hits : TRUE

\* the position of the cache entry of this call, 0 when there is none
CacheIndex(cache, resume_text, job_desc) ==
    LET hits == {i \in DOMAIN cache : cache[i].key = <<resume_text, job_desc>>}
    IN  IF hits = {} THEN 0 ELSE CHOOSE i \in hits : TRUE

\* cache with entry i moved to the front
MoveToFront(cache, i) ==
    <<cache[i]>> \o SubSeq(cache, 1, i - 1) \o SubSeq(cache, i + 1, Len(cache))

\* a full cache that drops its most recently used entry for the new one
CacheInsertDropNewest(cache, entry) ==
    IF Len(cache) < CACHE_SIZE THEN <<entry>> \o cache ELSE <<entry>> \o Tail(cache)

\* cache with a new entry in front, the least recently used one dropped when full
CacheInsert(cache, entry) == Truncate(<<entry>> \o cache, CACHE_SIZE)

\* a wrapper that stores what the function computed but not the 0.0 of its
\* except branch
LruCacheCallSkipFailed(cache, resume_text, job_desc, i, body) ==
    IF i # 0
    THEN [ret |-> cache[i].val, raised |-> FALSE, docs |-> <<>>, failed |-> FALSE,
          cache |-> MoveToFront(cache, i)]
    ELSE IF body.raised
    THEN [ret |-> 0, raised |-> TRUE, docs |-> body.docs, failed |-> FALSE,
          cache |-> cache]
    ELSE IF body.failed
    THEN [ret |-> 0, raised |-> FALSE, docs |-> body.docs, failed |-> TRUE,
          cache |-> cache]
    ELSE [ret |-> body.ret, raised |-> FALSE, docs |-> body.docs, failed |-> FALSE,
          cache |-> CacheInsert(cache, [key |-> <<resume_text, job_desc>>,
                                        val |-> body.ret])]

\* the lru_cache wrapper, given the position i of the entry of this call (0: a
\* miss) and the outcome `body` of running the function
LruCacheCall(cache, resume_text, job_desc, i, body) ==
    IF i # 0
    THEN [ret |-> cache[i].val, raised |-> FALSE, docs |-> <<>>, failed |-> FALSE,
          cache |-> MoveToFront(cache, i)]
    ELSE IF body.raised
    THEN [ret |-> 0, raised |-> TRUE, docs |-> body.docs, failed |-> FALSE,
          cache |-> cache]
    ELSE [ret |-> body.ret, raised |-> FALSE, docs |-> body.docs, failed |-> body.failed,
          cache |-> CacheInsert(cache, [key |-> <<resume_text, job_desc>>,
                                        val |-> body.ret])]

\* processor.get_similarity_score(resume_text, job_desc)
GetSimilarityScore(cache, nlp, resume_text, job_desc, be) ==
    LruCacheCall(cache, resume_text, job_desc,
                 CacheIndex(cache, resume_text, job_desc),
                 SimilarityBody(nlp, resume_text, job_desc, be))

\* get_match_score, given the outcome r of processor.get_similarity_score
MatchScoreOf(cache, resume_text, job_desc, r) ==
    IF ~Truthy(resume_text) \/ ~Truthy(job_desc)
    THEN [ret |-> 0, docs |-> <<>>, failed |-> FALSE, cache |-> cache]
    ELSE IF r.raised THEN [ret |-> 0, docs |-> r.docs, failed |-> FALSE, cache |-> cache]
    ELSE [ret |-> r.ret, docs |-> r.docs, failed |-> r.failed, cache |-> r.cache]

GetMatchScore(cache, nlp, resume_text, job_desc, be) ==
    MatchScoreOf(cache, resume_text, job_desc,
                 GetSimilarityScore(cache, nlp, resume_text, job_desc, be))

(***************************************************************************)
(* calculate_comprehensive_score                                           *)
(***************************************************************************)
\* the required list taken whole, without the `not in matched_skills` filter
MissingSkillsUnfiltered(job_skills_list, matched_skills) == job_skills_list

\* [skill for skill in job_skills_list if skill not in matched_skills]
RECURSIVE MissingSkills(_, _)
MissingSkills(job_skills_list, matched_skills) ==
    IF job_skills_list = <<>> THEN <<>>
    ELSE (IF InList(job_skills_list[1], matched_skills) THEN <<>>
          ELSE <<job_skills_list[1]>>)
         \o MissingSkills(Tail(job_skills_list), matched_skills)

\* the dict of the early return (lines 512-518)
EarlyResult ==
    [overall_score |-> PyFloat(0), skill_match_score |-> PyFloat(0),
     context_match_score |-> PyFloat(0), matched_skills |-> <<>>, missing_skills |-> <<>>]

\* the dict of the except branch (lines 555-563)
ExceptResult ==
    [overall_score |-> PyFloat(0), skill_match_score |-> PyFloat(0),
     context_match_score |-> PyFloat(0), matched_skills |-> <<>>, missing_skills |-> <<>>,
     total_skills |-> PyInt(0), matched_count |-> PyInt(0)]

\* round(overall_score, 2), in hundredths, of
\* (matched / total * 100) * 0.6 + context * 0.4, context in hundredths
OverallScore(matched, total, context) ==
    IF total = 0 THEN RoundHalfEven(4 * context, 10)
    ELSE RoundHalfEven(60000 * matched + 4 * context * total, 10 * total)

\* the percentage with an integer division of the two counts
SkillMatchScoreFloorDiv(matched, total) ==
    IF total = 0 THEN 0 ELSE (matched \div total) * 10000

\* round(skill_match_percentage, 2), in hundredths
SkillMatchScore(matched, total) ==
    IF total = 0 THEN 0 ELSE RoundHalfEven(10000 * matched, total)

\* a context match that is always computed against the joined skills
ContextTextSkillsOnly(job_skills_list, job_description) ==
    PyStr(JoinSpace(job_skills_list))

\* the text the context match is computed against (lines 532-537)
ContextText(job_skills_list, job_description) ==
    IF Truthy(job_description) THEN job_description
    ELSE PyStr(JoinSpace(job_skills_list))

\* the dict of the normal return (lines 543-551), context in hundredths
ScoreResult(job_skills_list, matched_skills, context) ==
    [overall_score |->
        PyFloat(OverallScore(Len(matched_skills), Len(job_skills_list), context)),
     skill_match_score |->
        PyFloat(SkillMatchScore(Len(matched_skills), Len(job_skills_list))),
     context_match_score |-> PyFloat(context),
     matched_skills |-> matched_skills,
     missing_skills |-> MissingSkills(job_skills_list, matched_skills),
     total_skills |-> PyInt(Len(job_skills_list)),
     matched_count |-> PyInt(Len(matched_skills))]

\* a guard that short-circuits on None only, letting empty strings through
NoInputIsNone(resume_text, job_skills) ==
    resume_text.t = "none" \/ job_skills.t = "none"

\* `not resume_text or not job_skills` (line 511)
NoInput(resume_text, job_skills) == ~Truthy(resume_text) \/ ~Truthy(job_skills)

\* a failure of the backend taken as an exception of the whole call
ComprehensiveScoreOfUncaught(cache, resume_text, job_skills, job_skills_list, context) ==
    IF NoInput(resume_text, job_skills)
    THEN [result |-> EarlyResult, docs |-> <<>>, failed |-> FALSE, cache |-> cache]
    ELSE IF ExtractSkillsRaises(resume_text, job_skills) \/ context.failed
    THEN [result |-> ExceptResult, docs |-> context.docs, failed |-> context.failed,
          cache |-> cache]
    ELSE [result |-> ScoreResult(job_skills_list,
                                 ExtractSkills(resume_text, job_skills), context.ret),
          docs |-> context.docs, failed |-> context.failed, cache |-> context.cache]

\* calculate_comprehensive_score, given the outcome `context` of its call of
\* get_match_score: [result: the dict returned, docs, failed, cache]
ComprehensiveScoreOf(cache, resume_text, job_skills, job_skills_list, context) ==
    IF NoInput(resume_text, job_skills)
    THEN [result |-> EarlyResult, docs |-> <<>>, failed |-> FALSE, cache |-> cache]
    ELSE IF ExtractSkillsRaises(resume_text, job_skills)
    THEN [result |-> ExceptResult, docs |-> <<>>, failed |-> FALSE, cache |-> cache]
    ELSE [result |-> ScoreResult(job_skills_list,
                                 ExtractSkills(resume_text, job_skills), context.ret),
          docs |-> context.docs, failed |-> context.failed, cache |-> context.cache]

CalculateComprehensiveScore(cache, nlp, resume_text, job_skills, job_description, be) ==
    ComprehensiveScoreOf(cache, resume_text, job_skills,
        ParseSkills(StrOf(job_skills)),
        GetMatchScore(cache, nlp, resume_text,
                      ContextText(ParseSkills(StrOf(job_skills)), job_description), be))

(***************************************************************************)
(* generate_skill_recommendations.  A recommendation string is kept as the *)
(* record of what it is built from: [kind, skill, key], kind "resource"    *)
(* (the text of skill_resources[key]), "generic" (the online-courses text) *)
(* or one of the three role advices "data", "coding", "leadership".        *)
(***************************************************************************)
\* the keys of skill_resources, in the dict's order
skill_resources ==
    <<<<"p","y","t","h","o","n">>,
      <<"m","a","c","h","i","n","e"," ","l","e","a","r","n","i","n","g">>,
      <<"j","a","v","a","s","c","r","i","p","t">>,
      <<"r","e","a","c","t">>,
      <<"s","q","l">>,
      <<"a","w","s">>,
      <<"d","o","c","k","e","r">>,
      <<"k","u","b","e","r","n","e","t","e","s">>,
      <<"n","o","d","e",".","j","s">>,
      <<"g","i","t">>>>

DataTerms ==
    <<<<"d","a","t","a">>, <<"a","n","a","l","y","s","t">>,
      <<"s","c","i","e","n","t","i","s","t">>>>

CodingTerms ==
    <<<<"d","e","v","e","l","o","p","e","r">>, <<"e","n","g","i","n","e","e","r">>,
      <<"p","r","o","g","r","a","m","m","e","r">>>>

LeadTerms == <<<<"m","a","n","a","g","e","r">>, <<"l","e","a","d">>>>

\* any(term in text for term in terms)
AnyTermIn(terms, text) == \E i \in DOMAIN terms : Contains(text, terms[i])

\* the recommendation taken from the last matching entry of the mapping
SkillRecommendationLastKey(skill) ==
    LET skill_lower == StrLower(skill)
        hits == {i \in DOMAIN skill_resources :
                    \/ Contains(skill_lower, skill_resources[i])
                    \/ Contains(skill_resources[i], skill_lower)}
    IN  IF hits = {} THEN [kind |-> "generic", skill |-> skill, key |-> <<>>]
        ELSE [kind |-> "resource", skill |-> skill,
              key |-> skill_resources[CHOOSE i \in hits : \A j \in hits : i >= j]]

\* the recommendation of one missing skill
SkillRecommendation(skill) ==
    LET skill_lower == StrLower(skill)
        hits == {i \in DOMAIN skill_resources :
                    \/ Contains(skill_lower, skill_resources[i])
                    \/ Contains(skill_resources[i], skill_lower)}
    IN  IF hits = {} THEN [kind |-> "generic", skill |-> skill, key |-> <<>>]
        ELSE [kind |-> "resource", skill |-> skill,
              key |-> skill_resources[CHOOSE i \in hits : \A j \in hits : i <= j]]

\* the general advice with the coding terms tested before the data terms
RoleAdviceCodingFirst(job_title) ==
    LET title == StrLower(job_title)
    IN  IF AnyTermIn(CodingTerms, title)
        THEN <<[kind |-> "coding", skill |-> <<>>, key |-> <<>>]>>
        ELSE IF AnyTermIn(DataTerms, title)
        THEN <<[kind |-> "data", skill |-> <<>>, key |-> <<>>]>>
        ELSE IF AnyTermIn(LeadTerms, title)
        THEN <<[kind |-> "leadership", skill |-> <<>>, key |-> <<>>]>>
        ELSE <<>>

\* the general advice chosen by the job title, as a list of zero or one entries
RoleAdvice(job_title) ==
    LET title == StrLower(job_title)
    IN  IF AnyTermIn(DataTerms, title)
        THEN <<[kind |-> "data", skill |-> <<>>, key |-> <<>>]>>
        ELSE IF AnyTermIn(CodingTerms, title)
        THEN <<[kind |-> "coding", skill |-> <<>>, key |-> <<>>]>>
        ELSE IF AnyTermIn(LeadTerms, title)
        THEN <<[kind |-> "leadership", skill |-> <<>>, key |-> <<>>]>>
        ELSE <<>>

\* a recommendation for every missing skill, with no limit of five
GenerateSkillRecommendationsUncapped(missing_skills, job_title) ==
    LET recommendations ==
            [i \in 1..Len(missing_skills) |-> SkillRecommendation(missing_skills[i])]
    IN  IF missing_skills = <<>> THEN <<>>
        ELSE IF Truthy(job_title) /\ Len(recommendations) < 5
        THEN recommendations \o RoleAdvice(job_title.s)
        ELSE recommendations

\* the function without its first test, `if not missing_skills: return []`
GenerateSkillRecommendationsNoGuard(missing_skills, job_title) ==
    LET top == Truncate(missing_skills, 5)
        recommendations == [i \in 1..Len(top) |-> SkillRecommendation(top[i])]
    IN  IF Truthy(job_title) /\ Len(recommendations) < 5
        THEN recommendations \o RoleAdvice(job_title.s)
        ELSE recommendations

\* missing_skills: a list of str; job_title: a str value or None
GenerateSkillRecommendations(missing_skills, job_title) ==
    LET top == Truncate(missing_skills, 5)
        recommendations == [i \in 1..Len(top) |-> SkillRecommendation(top[i])]
    IN  IF missing_skills = <<>> THEN <<>>
        ELSE IF Truthy(job_title) /\ Len(recommendations) < 5
        THEN recommendations \o RoleAdvice(job_title.s)
        ELSE recommendations

(***************************************************************************)
(* validate_job_role, get_job_details, calculate_resume_job_match.         *)
(* The catalog (job_descriptions_df) is a sequence of rows                 *)
(* [job_title, skills, job_description], each a str.                       *)
(***************************************************************************)
\* is the fraction p greater than the fraction q
FracGreater(p, q) == p[1] * q[2] > q[1] * p[2]

\* list.sort(key=similarity, reverse=True) on <<job, similarity>> pairs (stable)
RECURSIVE SortBySimilarity(_)
SortBySimilarity(pairs) ==
    IF pairs = <<>> THEN <<>>
    ELSE LET i == CHOOSE k \in DOMAIN pairs :
                    /\ \A j \in DOMAIN pairs : ~FracGreater(pairs[j][2], pairs[k][2])
                    /\ \A j \in 1..(k - 1) : FracGreater(pairs[k][2], pairs[j][2])
         IN  <<pairs[i]>>
             \o SortBySimilarity(SubSeq(pairs, 1, i - 1) \o SubSeq(pairs, i + 1, Len(pairs)))

\* the fuzzy candidates of the loop over available_jobs, in catalog order
RECURSIVE BestMatches(_, _)
BestMatches(selected_job_lower, available_jobs) ==
    IF available_jobs = <<>> THEN <<>>
    ELSE LET job == available_jobs[1]
             similarity == Ratio(selected_job_lower, job)
         IN  (IF job # <<>> /\ RatioAbove(similarity, JOB_ROLE_SIMILARITY_THRESHOLD[1],
                                          JOB_ROLE_SIMILARITY_THRESHOLD[2])
              THEN <<(<<job, similarity>>)>> ELSE <<>>)
             \o BestMatches(selected_job_lower, Tail(available_jobs))

\* the outcomes of job_title.dropna().sample(min(5, len(df))).tolist()
SampleSet(df) ==
    LET k == Min(5, Len(df))
    IN  {[i \in 1..k |-> df[f[i]].job_title] :
            f \in {g \in [1..k -> DOMAIN df] : \A a, b \in 1..k : a # b => g[a] # g[b]}}

\* the message of the last branch listing the sampled roles
ValidateJobRoleRolesInMessage(selected_job_role, df, sample) ==
    LET available_jobs == [i \in DOMAIN df |-> StrLower(Strip(df[i].job_title))]
        selected_job_lower == StrLower(Strip(selected_job_role.s))
        best_matches == SortBySimilarity(BestMatches(selected_job_lower, available_jobs))
        top == Truncate(best_matches, 3)
        suggested_roles == [i \in DOMAIN top |-> StrTitle(top[i][1])]
    IN  IF ~Truthy(selected_job_role) \/ ~IsStr(selected_job_role)
        THEN [is_valid |-> FALSE, message |-> "select_valid_role", suggested_roles |-> <<>>]
        ELSE IF df = <<>>
        THEN [is_valid |-> FALSE, message |-> "no_data", suggested_roles |-> <<>>]
        ELSE IF InList(selected_job_lower, available_jobs)
        THEN [is_valid |-> TRUE, message |-> "valid", suggested_roles |-> <<>>]
        ELSE IF suggested_roles # <<>>
        THEN [is_valid |-> FALSE, message |-> "did_you_mean",
              suggested_roles |-> suggested_roles]
        ELSE [is_valid |-> FALSE, message |-> <<"not_available", sample>>,
              suggested_roles |-> sample]

\* sample: the outcome of the random sampling, used by the last branch only
ValidateJobRole(selected_job_role, df, sample) ==
    LET available_jobs == [i \in DOMAIN df |-> StrLower(Strip(df[i].job_title))]
        selected_job_lower == StrLower(Strip(selected_job_role.s))
        best_matches == SortBySimilarity(BestMatches(selected_job_lower, available_jobs))
        top == Truncate(best_matches, 3)
        suggested_roles == [i \in DOMAIN top |-> StrTitle(top[i][1])]
    IN  IF ~Truthy(selected_job_role) \/ ~IsStr(selected_job_role)
        THEN [is_valid |-> FALSE, message |-> "select_valid_role", suggested_roles |-> <<>>]
        ELSE IF df = <<>>
        THEN [is_valid |-> FALSE, message |-> "no_data", suggested_roles |-> <<>>]
        ELSE IF InList(selected_job_lower, available_jobs)
        THEN [is_valid |-> TRUE, message |-> "valid", suggested_roles |-> <<>>]
        ELSE IF suggested_roles # <<>>
        THEN [is_valid |-> FALSE, message |-> "did_you_mean",
              suggested_roles |-> suggested_roles]
        ELSE [is_valid |-> FALSE, message |-> "not_available", suggested_roles |-> sample]

\* a lookup that returns the last matching row
GetJobDetailsLastMatch(job_title, df) ==
    LET job_title_lower == StrLower(Strip(job_title.s))
        hits == {i \in DOMAIN df : Strip(StrLower(df[i].job_title)) = job_title_lower}
    IN  IF ~Truthy(job_title) \/ df = <<>> \/ hits = {} THEN <<>>
        ELSE <<df[CHOOSE i \in hits : \A j \in hits : i >= j]>>

\* the list of the first matching row, empty for None
GetJobDetails(job_title, df) ==
    LET job_title_lower == StrLower(Strip(job_title.s))
        hits == {i \in DOMAIN df : Strip(StrLower(df[i].job_title)) = job_title_lower}
    IN  IF ~Truthy(job_title) \/ df = <<>> \/ hits = {} THEN <<>>
        ELSE <<df[CHOOSE i \in hits : \A j \in hits : i <= j]>>

\* the dict of the three returns that report no match result
InvalidJobResult(message, suggested_roles) ==
    [is_valid_job |-> FALSE, validation_message |-> message,
     suggested_roles |-> suggested_roles,
     overall_score |-> PyNone, skill_match_score |-> PyNone,
     context_match_score |-> PyNone,
     matched_skills |-> <<>>, missing_skills |-> <<>>, recommendations |-> <<>>]

\* the dict of the normal return (lines 405-418)
ValidJobResult(job_details, score_result, recommendations) ==
    [is_valid_job |-> TRUE, validation_message |-> "valid",
     job_details |-> job_details,
     overall_score |-> score_result.overall_score,
     skill_match_score |-> score_result.skill_match_score,
     context_match_score |-> score_result.context_match_score,
     matched_skills |-> score_result.matched_skills,
     missing_skills |-> score_result.missing_skills,
     total_skills |-> score_result.total_skills,
     matched_count |-> score_result.matched_count,
     recommendations |-> recommendations,
     suggested_roles |-> <<>>]

\* steps 3 and 4, given the outcome `score` of calculate_comprehensive_score
JobMatchOf(selected_job_role, job_details, score) ==
    IF "total_skills" \notin DOMAIN score.result
    \* score_result["total_skills"] raises KeyError: the except branch
    THEN [result |-> InvalidJobResult("error_processing", <<>>),
          docs |-> score.docs, failed |-> score.failed, cache |-> score.cache]
    ELSE [result |-> ValidJobResult(job_details, score.result,
                        GenerateSkillRecommendations(score.result.missing_skills,
                                                     selected_job_role)),
          docs |-> score.docs, failed |-> score.failed, cache |-> score.cache]

\* steps 1 and 2, given the outcomes of validate_job_role and get_job_details
JobMatchSteps(cache, nlp, resume_text, selected_job_role, df, be, validation_result, found) ==
    IF ~validation_result.is_valid
    THEN [result |-> InvalidJobResult(validation_result.message,
                                      validation_result.suggested_roles),
          docs |-> <<>>, failed |-> FALSE, cache |-> cache]
    ELSE IF found = <<>>
    THEN [result |-> InvalidJobResult("no_details",
                         Truncate([i \in DOMAIN df |-> df[i].job_title], 5)),
          docs |-> <<>>, failed |-> FALSE, cache |-> cache]
    ELSE JobMatchOf(selected_job_role, found[1],
            CalculateComprehensiveScore(cache, nlp, resume_text,
                PyStr(found[1].skills), PyStr(found[1].job_description), be))

\* [result: the dict returned, docs, failed, cache]
CalculateResumeJobMatch(cache, nlp, resume_text, selected_job_role, df, be, sample) ==
    JobMatchSteps(cache, nlp, resume_text, selected_job_role, df, be,
                  ValidateJobRole(selected_job_role, df, sample),
                  GetJobDetails(selected_job_role, df))

(***************************************************************************)
(* The display titles of the app (src/app.py): prettify_role and the       *)
(* helpers it calls.  The two dictionaries are kept to the entries that    *)
(* the titles of the modelled CSV files can reach.                         *)
(***************************************************************************)
\* s.startswith(p)
StartsWith(s, p) == Len(p) <= Len(s) /\ SubSeq(s, 1, Len(p)) = p

\* s.endswith(p)
EndsWith(s, p) == Len(p) <= Len(s) /\ SubSeq(s, Len(s) - Len(p) + 1, Len(s)) = p

\* the value of the first pair of the list with this key, <<>> when none
Lookup(pairs, key) ==
    LET hits == {i \in DOMAIN pairs : pairs[i][1] = key}
    IN  IF hits = {} THEN <<>> ELSE pairs[CHOOSE i \in hits : \A j \in hits : i <= j][2]

HasKey(pairs, key) == \E i \in DOMAIN pairs : pairs[i][1] = key

\* entries of PROFESSIONAL_TITLE_MAP (lines 76-302)
PROFESSIONAL_TITLE_MAP ==
    <<
      <<<<"d","a","t","a"," ","s","c","i","e","n","t","i","s","t">>, <<"D","a","t","a"," ","S","c","i","e","n","t","i","s","t">>>>,
      <<<<"s","r","e">>, <<"S","i","t","e"," ","R","e","l","i","a","b","i","l","i","t","y"," ","E","n","g","i","n","e","e","r">>>>,
      <<<<"t","e","c","h"," ","l","e","a","d">>, <<"T","e","c","h","n","i","c","a","l"," ","L","e","a","d">>>>>>

\* entries of SPECIAL_CAPS (lines 305-347)
SPECIAL_CAPS ==
    <<<<<<"a","i">>, <<"A","I">>>>, <<<<"m","l">>, <<"M","L">>>>,
      <<<<"u","i">>, <<"U","I">>>>, <<<<"u","x">>, <<"U","X">>>>,
      <<<<"q","a">>, <<"Q","A">>>>,
      <<<<"d","e","v","o","p","s">>, <<"D","e","v","O","p","s">>>>,
      <<<<"s","q","l">>, <<"S","Q","L">>>>>>

prefixes_to_remove ==
    <<<<"j","u","n","i","o","r"," ">>, <<"s","e","n","i","o","r"," ">>,
      <<"l","e","a","d"," ">>, <<"p","r","i","n","c","i","p","a","l"," ">>,
      <<"s","t","a","f","f"," ">>,
      <<"a","s","s","o","c","i","a","t","e"," ">>,
      <<"a","s","s","i","s","t","a","n","t"," ">>,
      <<"i","n","t","e","r","n"," ">>, <<"t","r","a","i","n","e","e"," ">>,
      <<"e","n","t","r","y"," ","l","e","v","e","l"," ">>,
      <<"m","i","d"," ","l","e","v","e","l"," ">>,
      <<"e","x","p","e","r","i","e","n","c","e","d"," ">>,
      <<"e","x","p","e","r","t"," ">>,
      <<"s","p","e","c","i","a","l","i","s","t"," ">>,
      <<"c","o","n","s","u","l","t","a","n","t"," ">>,
      <<"f","r","e","e","l","a","n","c","e"," ">>,
      <<"c","o","n","t","r","a","c","t"," ">>,
      <<"t","e","m","p","o","r","a","r","y"," ">>,
      <<"p","a","r","t"," ","t","i","m","e"," ">>,
      <<"f","u","l","l"," ","t","i","m","e"," ">>,
      <<"r","e","m","o","t","e"," ">>, <<"o","n","s","i","t","e"," ">>,
      <<"h","y","b","r","i","d"," ">>>>

suffixes_to_remove ==
    <<<<" ","i">>, <<" ","i","i">>, <<" ","i","i","i">>, <<" ","i","v">>,
      <<" ","v">>, <<" ","1">>, <<" ","2">>, <<" ","3">>, <<" ","4">>,
      <<" ","5">>, <<" ","i","n","t","e","r","n">>,
      <<" ","i","n","t","e","r","n","s","h","i","p">>,
      <<" ","t","r","a","i","n","e","e">>,
      <<" ","g","r","a","d","u","a","t","e">>,
      <<" ","c","o","n","t","r","a","c","t","o","r">>,
      <<" ","c","o","n","s","u","l","t","a","n","t">>,
      <<" ","f","r","e","e","l","a","n","c","e","r">>,
      <<" ","r","e","m","o","t","e">>, <<" ","o","n","s","i","t","e">>,
      <<" ","h","y","b","r","i","d">>>>

seniority_prefixes ==
    <<<<"J","u","n","i","o","r">>, <<"S","e","n","i","o","r">>,
      <<"L","e","a","d">>, <<"P","r","i","n","c","i","p","a","l">>,
      <<"S","t","a","f","f">>, <<"A","s","s","o","c","i","a","t","e">>,
      <<"A","s","s","i","s","t","a","n","t">>,
      <<"E","n","t","r","y"," ","L","e","v","e","l">>,
      <<"M","i","d"," ","L","e","v","e","l">>,
      <<"E","x","p","e","r","i","e","n","c","e","d">>,
      <<"E","x","p","e","r","t">>>>

corrections ==
    <<
      <<<<"F","u","l","l","s","t","a","c","k">>, <<"F","u","l","l"," ","S","t","a","c","k">>>>,
      <<<<"F","r","o","n","t","e","n","d">>, <<"F","r","o","n","t","e","n","d">>>>,
      <<<<"B","a","c","k","e","n","d">>, <<"B","a","c","k","e","n","d">>>>,
      <<<<"D","e","v","o","p","s">>, <<"D","e","v","O","p","s">>>>,
      <<<<"A","i"," ">>, <<"A","I"," ">>>>,
      <<<<"M","l"," ">>, <<"M","L"," ">>>>,
      <<<<"A","p","i"," ">>, <<"A","P","I"," ">>>>,
      <<<<"U","i"," ">>, <<"U","I"," ">>>>,
      <<<<"U","x"," ">>, <<"U","X"," ">>>>,
      <<<<"Q","a"," ">>, <<"Q","A"," ">>>>,
      <<<<"S","e","o"," ">>, <<"S","E","O"," ">>>>,
      <<<<"C","m","s"," ">>, <<"C","M","S"," ">>>>,
      <<<<"C","r","m"," ">>, <<"C","R","M"," ">>>>,
      <<<<"E","r","p"," ">>, <<"E","R","P"," ">>>>,
      <<<<"B","i"," ">>, <<"B","I"," ">>>>,
      <<<<"I","t"," ">>, <<"I","T"," ">>>>,
      <<<<"H","r"," ">>, <<"H","R"," ">>>>>>

\* the first entry of the list whose test holds (applies[i] for list[i]), <<>>
\* when none does: a for loop over the list that ends at its first hit
FirstOf(list, applies) ==
    LET hits == {i \in DOMAIN list : applies[i]}
    IN  IF hits = {} THEN <<>> ELSE list[CHOOSE i \in hits : \A j \in hits : i <= j]

\* normalize_job_title for a str: lowercased, whitespace collapsed, the first
\* prefix of the list that applies removed, then the first suffix
NormalizeJobTitle(title) ==
    LET normalized == JoinSpace(SplitWhitespace(StrLower(Strip(title))))
        prefix == FirstOf(prefixes_to_remove,
                          [i \in DOMAIN prefixes_to_remove |->
                              StartsWith(normalized, prefixes_to_remove[i])])
        cut == SubSeq(normalized, Len(prefix) + 1, Len(normalized))
        suffix == FirstOf(suffixes_to_remove,
                          [i \in DOMAIN suffixes_to_remove |->
                              EndsWith(cut, suffixes_to_remove[i])])
    IN  Strip(SubSeq(cut, 1, Len(cut) - Len(suffix)))

\* str.capitalize()
Capitalize(word) ==
    [i \in 1..Len(word) |-> IF i = 1 THEN UpperChar(word[i]) ELSE LowerChar(word[i])]

\* capitalize_word for a word of prettify_role, which holds no "/" and no "-"
\* (line 447 has replaced them)
CapitalizeWord(word) ==
    IF HasKey(SPECIAL_CAPS, StrLower(word)) THEN Lookup(SPECIAL_CAPS, StrLower(word))
    ELSE Capitalize(word)

\* s.replace(old, new), old not empty
RECURSIVE Replace(_, _, _)
Replace(s, old, new) ==
    IF Len(s) < Len(old) THEN s
    ELSE IF SubSeq(s, 1, Len(old)) = old
    THEN new \o Replace(SubSeq(s, Len(old) + 1, Len(s)), old, new)
    ELSE <<s[1]>> \o Replace(Tail(s), old, new)

\* the loop of lines 479-480 over the first n corrections
RECURSIVE ApplyCorrections(_, _)
ApplyCorrections(result, n) ==
    IF n = 0 THEN result
    ELSE Replace(ApplyCorrections(result, n - 1), corrections[n][1], corrections[n][2])

\* re.sub(r'(?<=[a-z])(?=[A-Z])', ' ', s)
RECURSIVE CamelSplit(_)
CamelSplit(s) ==
    IF Len(s) < 2 THEN s
    ELSE IF IsLower(s[1]) /\ IsUpper(s[2]) THEN <<s[1], " ">> \o CamelSplit(Tail(s))
    ELSE <<s[1]>> \o CamelSplit(Tail(s))

\* the words of lines 447-453: "-", "_" and "/" taken as spaces, then split()
CleanedWords(s) ==
    SplitWhitespace([i \in 1..Len(s) |-> IF s[i] \in {"-", "_", "/"} THEN " " ELSE s[i]])

\* the fallback of lines 442-482
FallbackTitle(original_role) ==
    LET words == CleanedWords(CamelSplit(original_role))
    IN  ApplyCorrections(JoinSpace([i \in DOMAIN words |-> CapitalizeWord(words[i])]),
                         Len(corrections))

\* the lookup without seniority level of lines 427-440
NormalizedTitle(original_role, normalized) ==
    LET prefix == FirstOf(seniority_prefixes,
                    [i \in DOMAIN seniority_prefixes |->
                        StartsWith(StrLower(original_role),
                                   StrLower(seniority_prefixes[i]) \o <<" ">>)])
    IN  IF prefix = <<>> THEN Lookup(PROFESSIONAL_TITLE_MAP, normalized)
        ELSE prefix \o <<" ">> \o Lookup(PROFESSIONAL_TITLE_MAP, normalized)

\* prettify_role(role), role a Python value
PrettifyRole(role) ==
    IF ~IsStr(role) \/ Strip(role.s) = <<>> THEN <<>>
    ELSE IF HasKey(PROFESSIONAL_TITLE_MAP, StrLower(Strip(role.s)))
    THEN Lookup(PROFESSIONAL_TITLE_MAP, StrLower(Strip(role.s)))
    ELSE IF HasKey(PROFESSIONAL_TITLE_MAP, NormalizeJobTitle(Strip(role.s)))
    THEN NormalizedTitle(Strip(role.s), NormalizeJobTitle(Strip(role.s)))
    ELSE FallbackTitle(Strip(role.s))

(***************************************************************************)
(* The job catalog: load_job_descriptions (src/utils.py), load_data and    *)
(* the table of a run (src/app.py).  A CSV file is                         *)
(*   [kind: "missing", "unreadable" (read_csv raises) or "table",          *)
(*    columns: the header, rows: the rows, each a tuple of cells],         *)
(* a cell being a str or None for an empty cell (read_csv gives NaN).      *)
(* A loaded table is the sequence of its rows, each a record of str.       *)
(***************************************************************************)
\* sep.join(list)
RECURSIVE Join(_, _)
Join(list, sep) ==
    IF list = <<>> THEN <<>>
    ELSE IF Len(list) = 1 THEN list[1]
    ELSE list[1] \o sep \o Join(Tail(list), sep)

\* df.columns.str.strip().str.lower().str.replace(r"\s+", "_", regex=True)
NormalizeColumn(name) == Join(SplitWhitespace(StrLower(Strip(name))), <<"_">>)

column_mapping ==
    << <<<<"j","o","b","_","r","o","l","e">>, <<"j","o","b","_","t","i","t","l","e">>>>,
       <<<<"s","k","i","l","l">>, <<"s","k","i","l","l","s">>>>,
       <<<<"j","o","b","_","d","e","s","c","r","i","p","t","i","o","n","s">>, <<"j","o","b","_","d","e","s","c","r","i","p","t","i","o","n">>>> >>

\* df.rename(columns=column_mapping) for one column name
RenameColumn(name) ==
    IF HasKey(column_mapping, name) THEN Lookup(column_mapping, name) ELSE name

required_cols == {<<"j","o","b","_","t","i","t","l","e">>, <<"s","k","i","l","l","s">>, <<"j","o","b","_","d","e","s","c","r","i","p","t","i","o","n">>}

\* df.fillna("") for one cell
FillNa(cell) == IF cell = PyNone THEN PyStr(<<>>) ELSE cell

\* the cell of a row in the first column of this name
CellOf(columns, row, name) ==
    FillNa(row[CHOOSE i \in DOMAIN columns :
                  columns[i] = name /\ \A j \in DOMAIN columns : columns[j] = name => i <= j]).s

\* df[list(required_cols)] for one row
RequiredCells(columns, row) ==
    [job_title |-> CellOf(columns, row, <<"j","o","b","_","t","i","t","l","e">>),
     skills |-> CellOf(columns, row, <<"s","k","i","l","l","s">>),
     job_description |-> CellOf(columns, row, <<"j","o","b","_","d","e","s","c","r","i","p","t","i","o","n">>)]

\* the filter of lines 308-311
NotEmptyRow(row) ==
    /\ Strip(row.job_title) # <<>>
    /\ Strip(row.job_description) # <<>>

\* the table of lines 275-321, given the renamed columns
CleanRows(columns, rows) ==
    SelectSeq([i \in DOMAIN rows |-> RequiredCells(columns, rows[i])], NotEmptyRow)

\* load_job_descriptions(file_path), without its cache:
\* [raised: "" or the exception, value: the table]
LoadJobDescriptions(csv) ==
    LET columns == [i \in DOMAIN csv.columns |->
                        RenameColumn(NormalizeColumn(csv.columns[i]))]
    IN  IF csv.kind = "missing" THEN [raised |-> "FileNotFoundError", value |-> <<>>]
        ELSE IF csv.kind = "unreadable" \/ csv.rows = <<>>
        THEN [raised |-> "ValueError", value |-> <<>>]
        ELSE IF ~(required_cols \subseteq Range(columns))
        THEN [raised |-> "ValueError", value |-> <<>>]
        ELSE IF CleanRows(columns, csv.rows) = <<>>
        THEN [raised |-> "ValueError", value |-> <<>>]
        ELSE [raised |-> "", value |-> CleanRows(columns, csv.rows)]

\* lines 1290-1292 of load_data for one row
StripTitleAndSkills(row) ==
    [job_title |-> Strip(row.job_title), skills |-> Strip(row.skills),
     job_description |-> row.job_description]

\* the body of load_data, given the outcome df of load_job_descriptions:
\* [stopped: st.stop() was called, value: the table returned]
LoadDataOf(csv, df) ==
    IF csv.kind = "missing" \/ df.raised # "" \/ df.value = <<>>
    THEN [stopped |-> TRUE, value |-> <<>>]
    ELSE [stopped |-> FALSE,
          value |-> [i \in DOMAIN df.value |-> StripTitleAndSkills(df.value[i])]]

LoadData(csv) == LoadDataOf(csv, LoadJobDescriptions(csv))

\* a cache that hands out the cached object itself
CacheDataShared(cached) == [table |-> cached, shared |-> TRUE]

\* @st.cache_data: a call answered from the cache gets a copy of the cached
\* value, [table: the value, shared: the object is the cached one]
CacheData(cached) == [table |-> cached, shared |-> FALSE]

\* job_data["display_title"] = job_data["job_title"].apply(prettify_role)
WithDisplayTitles(table) ==
    [i \in DOMAIN table |->
        [job_title |-> table[i].job_title, skills |-> table[i].skills,
         job_description |-> table[i].job_description,
         display_title |-> PrettifyRole(PyStr(table[i].job_title))]]

\* the characters of the titles in the order of their code points
CodeOrder == <<" ">> \o Uppers \o Lowers

CodeOf(c) == CHOOSE i \in DOMAIN CodeOrder : CodeOrder[i] = c

\* a < b for two str
RECURSIVE StrLess(_, _)
StrLess(a, b) ==
    IF b = <<>> THEN FALSE
    ELSE IF a = <<>> THEN TRUE
    ELSE IF a[1] = b[1] THEN StrLess(Tail(a), Tail(b))
    ELSE CodeOf(a[1]) < CodeOf(b[1])

\* sort_values("display_title"): rows with equal titles keep their order
RECURSIVE SortByDisplayTitle(_)
SortByDisplayTitle(rows) ==
    IF rows = <<>> THEN <<>>
    ELSE LET n == Len(rows)
             sorted == SortByDisplayTitle(SubSeq(rows, 1, n - 1))
             before == SelectSeq(sorted,
                          LAMBDA r : ~StrLess(rows[n].display_title, r.display_title))
             after == SelectSeq(sorted,
                          LAMBDA r : StrLess(rows[n].display_title, r.display_title))
         IN  before \o <<rows[n]>> \o after

\* lines 1322-1325: the rows with a display title, sorted by it
JobData(titled) ==
    SortByDisplayTitle(SelectSeq(titled, LAMBDA r : r.display_title # <<>>))

\* sorted(job_data["display_title"].unique())
RECURSIVE Unique(_)
Unique(list) ==
    IF list = <<>> THEN <<>>
    ELSE LET n == Len(list)
             before == Unique(SubSeq(list, 1, n - 1))
         IN  IF InList(list[n], before) THEN before ELSE Append(before, list[n])

job_roles(rows) == Unique([i \in DOMAIN rows |-> rows[i].display_title])

\* job_data[job_data["display_title"] == job_role_display].iloc[0]
SelectedJob(rows, job_role_display) ==
    rows[CHOOSE i \in DOMAIN rows :
            /\ rows[i].display_title = job_role_display
            /\ \A j \in DOMAIN rows : rows[j].display_title = job_role_display => i <= j]

\* extract_text_from_resume(uploaded_file) for a file
\* [file_type, readable: the reader of the type raises nothing, text]
ExtractTextFromResume(uploaded_file) ==
    IF uploaded_file.file_type \notin {"pdf", "docx", "txt"} THEN PyStr(<<>>)
    ELSE IF ~uploaded_file.readable THEN PyStr(<<>>)
    ELSE PyStr(Strip(uploaded_file.text))

\* a test that lets every text through
ResumeUsableAlways(text) == TRUE

\* `if resume_text and resume_text.strip()` (line 1401)
ResumeUsable(text) == Truthy(text) /\ Strip(text.s) # <<>>

(***************************************************************************)
(* The inputs of the model.                                                *)
(***************************************************************************)
\* most calls of one session
MaxCalls == 2

\* most comma-separated tokens of a generated job skills string
MaxSkills == 3

\* what the backend does in one call: which of its steps raises, and the cosine
Backends ==
    {[fail |-> f, cos |-> 0] : f \in {"resume_doc", "job_doc", "similarity"}}
    \cup {[fail |-> "none", cos |-> c] : c \in {-50000, 0, 40, 33336, 100000}}

SessionBackends ==
    {[fail |-> "similarity", cos |-> 0], [fail |-> "none", cos |-> 40],
     [fail |-> "none", cos |-> -50000]}

txtPyAndSql == <<"P","y"," ","a","n","d"," ","S","Q","L">>

txtJavascript == <<"j","a","v","a","s","c","r","i","p","t"," ","p","y">>

txtJva == <<"J","v","a"," ","d","e","v">>

txtCobol == <<"c","o","b","o","l">>

\* a word whose ratio to "java" is 0.8, the threshold itself
txtJaxvax == <<"j","a","x","v","a","x">>

txtPyDev == <<"P","y"," ","d","e","v">>

txtBlank == <<" ", "\n">>

\* resume_text: None, a number, empty, whitespace only, and four resumes
ResumeTexts ==
    {PyNone, PyInt(5), PyStr(<<>>), PyStr(txtBlank), PyStr(txtPyAndSql),
     PyStr(txtJavascript), PyStr(txtJva), PyStr(txtJaxvax)}

\* the tokens the generated job skills strings are made of
SkillTokens == {<<>>, <<"P","y">>, <<" ","S","Q","L"," ">>, <<"J","a","v","a">>, <<"p","y">>}

\* ",".join(tokens)
RECURSIVE JoinComma(_)
JoinComma(tokens) ==
    IF tokens = <<>> THEN <<>>
    ELSE IF Len(tokens) = 1 THEN tokens[1]
    ELSE tokens[1] \o <<",">> \o JoinComma(Tail(tokens))

\* job_skills: None, a number, and every string of 1..MaxSkills tokens
SkillStrings ==
    {PyNone, PyInt(5)}
    \cup {PyStr(JoinComma(ts)) : ts \in UNION {[1..k -> SkillTokens] : k \in 1..MaxSkills}}

\* job_description: None, empty, whitespace only, a number, a text
Descriptions == {PyNone, PyStr(<<>>), PyStr(txtBlank), PyInt(7), PyStr(txtPyDev)}

SessionResumes == {PyStr(<<>>), PyStr(txtBlank), PyStr(txtPyAndSql)}

SessionTexts ==
    {PyStr(<<>>), PyStr(txtBlank), PyStr(txtPyDev), PyStr(<<"P","y">>), PyInt(7)}

SessionSkills == {PyStr(<<>>), PyStr(<<"P","y",","," ","J","a","v","a">>)}

rowDataDev ==
    [job_title |-> <<"D","a","t","a"," ","D","e","v">>,
     skills |-> <<"P","y",","," ","S","Q","L">>,
     job_description |-> txtPyDev]

rowMlLead ==
    [job_title |-> <<" ","M","L"," ","L","e","a","d"," ">>,
     skills |-> <<>>,
     job_description |-> <<"l","e","a","d","s"," ","M","L">>]

\* a later row with the title of rowDataDev in another casing
rowDataDevTwo ==
    [job_title |-> <<"d","a","t","a"," ","D","E","V"," ">>,
     skills |-> <<"J","a","v","a">>,
     job_description |-> txtJva]

\* job_descriptions_df: no rows, or two rows of which one has no skills
Catalogs == {<<>>, <<rowDataDev, rowMlLead>>}

\* selected_job_role: None, two roles of the catalog, a near miss, an unknown one
JobRoles ==
    {PyNone, PyStr(<<"d","a","t","a"," ","d","e","v">>), PyStr(<<"m","l"," ","l","e","a","d">>),
     PyStr(<<"D","a","t","a"," ","D","a","v">>), PyStr(<<"z","z","z">>)}

(***************************************************************************)
(* The state.                                                              *)
(*   pc           where the app script is: "ensure" (ensure_spacy_model),  *)
(*                "import" (from utils import ...), "ready", "crashed"     *)
(*   model_env    the installation of en_core_web_sm: "installed",         *)
(*                "package" (spacy.load raises OSError, the package        *)
(*                imports), "missing", "broken" (another exception)        *)
(*   spacy_loaded st.session_state.spacy_loaded: "unset", "True", "False"  *)
(*   nlp          processor.nlp: "None" or "loaded"                        *)
(*   cache        the lru_cache of get_similarity_score, newest first      *)
(*   catalog      job_descriptions_df                                      *)
(*   last         the last call: [op, args, result, docs, failed]          *)
(*   calls        the number of calls made                                 *)
(*   job_data     the table of one run of the app script (app.py line      *)
(*                1316 on), <<>> before the run has loaded it              *)
(*   run_resume_text  resume_text of one run of the app script (app.py     *)
(*                line 1397): the text extracted from the uploaded file,   *)
(*                None before                                              *)
(***************************************************************************)
VARIABLES pc, model_env, spacy_loaded, nlp, cache, catalog, last, calls,
          job_data, run_resume_text

vars == <<pc, model_env, spacy_loaded, nlp, cache, catalog, last, calls,
          job_data, run_resume_text>>

NoCall ==
    [op |-> "none", args |-> <<>>, result |-> PyNone, docs |-> <<>>, failed |-> FALSE]

Init ==
    /\ pc = "ensure"
    /\ model_env \in {"installed", "package", "missing", "broken"}
    /\ spacy_loaded = "unset"
    /\ nlp = "None"
    /\ cache = <<>>
    /\ catalog \in Catalogs
    /\ last = NoCall
    /\ calls = 0
    /\ job_data = <<>>
    /\ run_resume_text = PyNone

\* app.py: ensure_spacy_model() and st.session_state.spacy_loaded
EnsureSpacyModel ==
    /\ pc = "ensure"
    /\ \E download \in {"ok", "failed", "exception"} :
        /\ spacy_loaded' =
              IF model_env = "installed" THEN "True"
              ELSE IF model_env = "broken" THEN "False"
              ELSE IF download = "ok" THEN "True" ELSE "False"
        /\ model_env' =
              IF model_env \in {"package", "missing"} /\ download = "ok"
              THEN "installed" ELSE model_env
    /\ pc' = "import"
    /\ UNCHANGED <<nlp, cache, catalog, last, calls, job_data, run_resume_text>>

\* app.py: from utils import ..., which runs processor = ResumeProcessor()
\* and so _load_model; only ImportError is caught there
ImportUtils ==
    /\ pc = "import"
    /\ IF model_env \in {"installed", "package"}
       THEN nlp' = "loaded" /\ pc' = "ready"
       ELSE nlp' = nlp /\ pc' = "crashed"
    /\ UNCHANGED <<model_env, spacy_loaded, cache, catalog, last, calls, job_data,
                   run_resume_text>>

\* streamlit runs the script again: spacy_loaded is set, the import is retried
Rerun ==
    /\ pc = "crashed"
    /\ pc' = "import"
    /\ UNCHANGED <<model_env, spacy_loaded, nlp, cache, catalog, last, calls, job_data,
                   run_resume_text>>

\* the state after a call that returned r = [result, docs, failed, cache]
Returned(op, args, r) ==
    /\ last' = [op |-> op, args |-> args, result |-> r.result, docs |-> r.docs,
                failed |-> r.failed]
    /\ cache' = r.cache
    /\ calls' = calls + 1
    /\ UNCHANGED <<pc, model_env, spacy_loaded, nlp, catalog, job_data, run_resume_text>>

\* get_match_score returns a float
MatchScoreCall(r) ==
    [result |-> PyFloat(r.ret), docs |-> r.docs, failed |-> r.failed, cache |-> r.cache]

CallGetMatchScore(resume_text, job_desc, be) ==
    /\ pc = "ready"
    /\ Returned("get_match_score", <<resume_text, job_desc>>,
                MatchScoreCall(GetMatchScore(cache, nlp, resume_text, job_desc, be)))

CallComprehensiveScore(resume_text, job_skills, job_description, be) ==
    /\ pc = "ready"
    /\ Returned("calculate_comprehensive_score",
                <<resume_text, job_skills, job_description>>,
                CalculateComprehensiveScore(cache, nlp, resume_text, job_skills,
                                            job_description, be))

CallResumeJobMatch(resume_text, selected_job_role, be, sample) ==
    /\ pc = "ready"
    /\ Returned("calculate_resume_job_match", <<resume_text, selected_job_role>>,
                CalculateResumeJobMatch(cache, nlp, resume_text, selected_job_role,
                                        catalog, be, sample))

SessionGetMatchScore ==
    /\ calls < MaxCalls
    /\ \E resume_text \in SessionResumes, job_desc \in SessionTexts, be \in SessionBackends :
          CallGetMatchScore(resume_text, job_desc, be)

SessionComprehensiveScore ==
    /\ calls < MaxCalls
    /\ \E resume_text \in SessionResumes, job_skills \in SessionSkills,
          job_description \in SessionTexts, be \in SessionBackends :
          CallComprehensiveScore(resume_text, job_skills, job_description, be)

SessionResumeJobMatch ==
    /\ calls < MaxCalls
    /\ \E resume_text \in SessionResumes, selected_job_role \in JobRoles,
          be \in SessionBackends, sample \in SampleSet(catalog) :
          CallResumeJobMatch(resume_text, selected_job_role, be, sample)

Next ==
    \/ EnsureSpacyModel
    \/ ImportUtils
    \/ Rerun
    \/ SessionGetMatchScore
    \/ SessionComprehensiveScore
    \/ SessionResumeJobMatch

Spec == Init /\ [][Next]_vars

(***************************************************************************)
(* One call of calculate_comprehensive_score on every input of the bounded *)
(* sets, in a started app with the model loaded and an empty cache.        *)
(***************************************************************************)
ScoreInit ==
    /\ pc = "ready"
    /\ model_env = "installed"
    /\ spacy_loaded = "True"
    /\ nlp = "loaded"
    /\ cache = <<>>
    /\ catalog = <<>>
    /\ last = NoCall
    /\ calls = 0
    /\ job_data = <<>>
    /\ run_resume_text = PyNone

ScoreCall ==
    /\ calls = 0
    /\ \E resume_text \in ResumeTexts, job_skills \in SkillStrings,
          job_description \in Descriptions, be \in Backends :
          CallComprehensiveScore(resume_text, job_skills, job_description, be)

ScoreNext == ScoreCall

SpecScore == ScoreInit /\ [][ScoreNext]_vars

(***************************************************************************)
(* A session of get_match_score calls that fills the cache: the calls take *)
(* the resume texts "r0", "r1", ... in turn, and once the cache is one     *)
(* entry short of full each call takes the next unused text, the text of   *)
(* the least recently used entry or the text of the most recently used one.*)
(***************************************************************************)
\* most calls made after the first CACHE_SIZE ones
MaxOverflow == 4

\* the n-th resume text
KeyText(n) == PyStr(<<"r">> \o IntDigits(n))

CacheBackend == [fail |-> "none", cos |-> 40]

\* the resume texts the next call is made with
CacheResumes ==
    IF Len(cache) < CACHE_SIZE - 1 THEN {KeyText(calls)}
    ELSE {KeyText(calls), cache[Len(cache)].key[1], cache[1].key[1]}

CacheCall ==
    /\ calls < CACHE_SIZE + MaxOverflow
    /\ \E resume_text \in CacheResumes :
          CallGetMatchScore(resume_text, PyStr(txtPyDev), CacheBackend)

CacheNext == CacheCall

SpecCache == ScoreInit /\ [][CacheNext]_vars

(***************************************************************************)
(* One call of generate_skill_recommendations on every list of up to       *)
(* MaxMissing missing skills and every job title of the bounded sets.      *)
(***************************************************************************)
\* most entries of a generated list of missing skills
MaxMissing == 6

skPython == <<"P","y","t","h","o","n">>

skJava == <<"J","a","v","a">>

skNodeReact == <<"N","o","d","e",".","j","s"," ","R","e","a","c","t">>

\* the skills the lists are made of: a key of the mapping, a part of a key,
\* a text that holds two keys, and a skill the mapping does not know
MissingVocabulary == {skPython, skJava, skNodeReact, txtCobol}

MissingLists == UNION {[1..k -> MissingVocabulary] : k \in 0..MaxMissing}

\* job_title: None, empty, and titles of one or two keyword groups or of none
JobTitles ==
    {PyNone, PyStr(<<>>),
     PyStr(<<"D","a","t","a"," ","E","n","g","i","n","e","e","r">>),
     PyStr(<<"L","e","a","d"," ","D","e","v","e","l","o","p","e","r">>),
     PyStr(<<"T","e","a","m"," ","L","e","a","d">>),
     PyStr(<<"C","h","e","f">>)}

\* generate_skill_recommendations returns a list, and calls no backend
RecommendationsCall(recommendations) ==
    [result |-> recommendations, docs |-> <<>>, failed |-> FALSE, cache |-> cache]

CallGenerateSkillRecommendations(missing_skills, job_title) ==
    /\ pc = "ready"
    /\ Returned("generate_skill_recommendations", <<missing_skills, job_title>>,
                RecommendationsCall(GenerateSkillRecommendations(missing_skills, job_title)))

RecommendCall ==
    /\ calls = 0
    /\ \E missing_skills \in MissingLists, job_title \in JobTitles :
          CallGenerateSkillRecommendations(missing_skills, job_title)

RecommendNext == RecommendCall

SpecRecommend == ScoreInit /\ [][RecommendNext]_vars

(***************************************************************************)
(* One call of calculate_resume_job_match for the role of a catalog of one *)
(* row, on every title and every job skills string of the bounded sets.    *)
(***************************************************************************)
\* the rows of the catalogs: a title of JobTitles and a generated skills string
MatchRows ==
    {[job_title |-> title.s, skills |-> job_skills.s, job_description |-> txtPyDev] :
        title \in {t \in JobTitles : Truthy(t)},
        job_skills \in {k \in SkillStrings : IsStr(k)}}

MatchResumes ==
    {PyStr(<<>>), PyStr(txtPyAndSql), PyStr(txtJavascript), PyStr(txtJva)}

MatchInit ==
    /\ pc = "ready"
    /\ model_env = "installed"
    /\ spacy_loaded = "True"
    /\ nlp = "loaded"
    /\ cache = <<>>
    /\ catalog \in {<<row>> : row \in MatchRows}
    /\ last = NoCall
    /\ calls = 0
    /\ job_data = <<>>
    /\ run_resume_text = PyNone

MatchCall ==
    /\ calls = 0
    /\ \E resume_text \in MatchResumes, sample \in SampleSet(catalog) :
          CallResumeJobMatch(resume_text, PyStr(catalog[1].job_title), CacheBackend, sample)

MatchNext == MatchCall

SpecMatch == MatchInit /\ [][MatchNext]_vars

(***************************************************************************)
(* One call of calculate_resume_job_match for every role of JobRoles, on   *)
(* catalogs in which two rows have the same title up to case and           *)
(* surrounding whitespace.                                                 *)
(***************************************************************************)
\* job_descriptions_df: no rows, or three rows of which two share a title, in
\* two orders
JobCatalogs ==
    {<<>>, <<rowDataDev, rowMlLead, rowDataDevTwo>>, <<rowDataDevTwo, rowDataDev>>}

JobInit ==
    /\ pc = "ready"
    /\ model_env = "installed"
    /\ spacy_loaded = "True"
    /\ nlp = "loaded"
    /\ cache = <<>>
    /\ catalog \in JobCatalogs
    /\ last = NoCall
    /\ calls = 0
    /\ job_data = <<>>
    /\ run_resume_text = PyNone

JobCall ==
    /\ calls = 0
    /\ \E resume_text \in ResumeTexts, selected_job_role \in JobRoles,
          be \in Backends, sample \in SampleSet(catalog) :
          CallResumeJobMatch(resume_text, selected_job_role, be, sample)

JobNext == JobCall

SpecJob == JobInit /\ [][JobNext]_vars

(***************************************************************************)
(* The two skill-extraction functions called on their own.  A call of      *)
(* extract_skills_advanced is made in a run of the program with some hash  *)
(* seed, which is recorded after the text in the args of the call; the     *)
(* same text is then extracted again in a run with any seed.  The result   *)
(* of a call is [raised: the call raised an exception, value: the list].   *)
(***************************************************************************)
\* most words of a generated text
MaxWords == 3

\* hash seeds that give three different iteration orders of skill_patterns
HashSeeds == {1, 7, 59}

\* the words the texts are made of
TextWords ==
    {<<"P","y","t","h","o","n">>, <<"j","a","v","a">>, <<"C","+","+">>, <<"c","#">>,
     <<"j","a","v","a","s","c","r","i","p","t">>, <<"n","o","d","e",".","j","s">>,
     <<"C","+","+","1","1">>}

\* text: None, a number, empty, whitespace only, and 1..MaxWords words
AdvancedTexts ==
    {PyNone, PyInt(5), PyStr(<<>>), PyStr(txtBlank)}
    \cup {PyStr(JoinSpace(ws)) : ws \in UNION {[1..k -> TextWords] : k \in 1..MaxWords}}

\* the outcome of a call of one of the two functions
ExtractionCall(raised, value) ==
    [result |-> [raised |-> raised, value |-> value], docs |-> <<>>, failed |-> FALSE,
     cache |-> cache]

CallExtractSkillsAdvanced(text, hash_seed) ==
    /\ pc = "ready"
    /\ Returned("extract_skills_advanced", <<text, PyInt(hash_seed)>>,
                ExtractionCall(FALSE, ExtractSkillsAdvanced(text, hash_seed)))

CallExtractSkills(resume_text, jd_skills) ==
    /\ pc = "ready"
    /\ Returned("extract_skills", <<resume_text, jd_skills>>,
                IF ExtractSkillsRaises(resume_text, jd_skills)
                THEN ExtractionCall(TRUE, <<>>)
                ELSE ExtractionCall(FALSE, ExtractSkills(resume_text, jd_skills)))

ExtractAdvancedCall ==
    /\ calls = 0
    /\ \E text \in AdvancedTexts, hash_seed \in HashSeeds :
          CallExtractSkillsAdvanced(text, hash_seed)

ExtractAdvancedAgain ==
    /\ calls >= 1
    /\ calls < MaxCalls
    /\ last.op = "extract_skills_advanced"
    /\ \E hash_seed \in HashSeeds : CallExtractSkillsAdvanced(last.args[1], hash_seed)

ExtractCall ==
    /\ calls = 0
    /\ \E resume_text \in ResumeTexts, jd_skills \in SkillStrings :
          CallExtractSkills(resume_text, jd_skills)

ExtractNext ==
    \/ ExtractAdvancedCall
    \/ ExtractAdvancedAgain
    \/ ExtractCall

SpecExtract == ScoreInit /\ [][ExtractNext]_vars

(***************************************************************************)
(* The job catalog loader called on its own, on every CSV file of the      *)
(* bounded set.                                                            *)
(***************************************************************************)
\* most rows of a generated CSV file
MaxRows == 2

\* the headers: the standard names, the names that are normalised and
\* renamed, upper case with a space, and a header without a title column
CsvHeaders ==
    {<<<<"j","o","b","_","t","i","t","l","e">>, <<"s","k","i","l","l","s">>, <<"j","o","b","_","d","e","s","c","r","i","p","t","i","o","n">>>>,
     <<<<" ","J","o","b"," ","R","o","l","e"," ">>, <<"S","k","i","l","l">>, <<"J","o","b"," "," ","D","e","s","c","r","i","p","t","i","o","n","s">>>>,
     <<<<"J","O","B","_","T","I","T","L","E">>, <<"S","K","I","L","L","S">>, <<"J","o","b"," ","D","e","s","c","r","i","p","t","i","o","n">>>>,
     <<<<"t","i","t","l","e">>, <<"s","k","i","l","l","s">>, <<"j","o","b","_","d","e","s","c","r","i","p","t","i","o","n">>>>}

\* the rows: two complete ones, one without skills, one without a title, one
\* with a blank description
CsvRows ==
    {<<PyStr(<<"D","a","t","a"," ","D","e","v">>), PyStr(<<"P","y",","," ","S","Q","L">>), PyStr(<<"P","y"," ","d","e","v">>)>>,
     <<PyStr(<<" ","M","L"," ","L","e","a","d"," ">>), PyNone, PyStr(<<"l","e","a","d","s"," ","M","L">>)>>,
     <<PyStr(<<"s","e","n","i","o","r"," ","S","R","E">>), PyStr(<<"J","a","v","a">>), PyStr(<<"J","v","a"," ","d","e","v">>)>>,
     <<PyNone, PyStr(<<"J","a","v","a">>), PyStr(<<"J","v","a"," ","d","e","v">>)>>,
     <<PyStr(<<"C","h","e","f">>), PyStr(<<"P","y">>), PyStr(<<" ">>)>>}

CsvFiles ==
    {[kind |-> k, columns |-> <<>>, rows |-> <<>>] : k \in {"missing", "unreadable"}}
    \cup {[kind |-> "table", columns |-> h, rows |-> rs] :
            h \in CsvHeaders, rs \in UNION {[1..k -> CsvRows] : k \in 0..MaxRows}}

\* load_job_descriptions returns a table or raises, and calls no backend
LoaderCall(df) ==
    [result |-> df, docs |-> <<>>, failed |-> FALSE, cache |-> cache]

CallLoadJobDescriptions(csv) ==
    /\ pc = "ready"
    /\ Returned("load_job_descriptions", <<csv>>, LoaderCall(LoadJobDescriptions(csv)))

LoadCall ==
    /\ calls = 0
    /\ \E csv \in CsvFiles : CallLoadJobDescriptions(csv)

LoadNext == LoadCall

SpecLoad == ScoreInit /\ [][LoadNext]_vars

(***************************************************************************)
(* Runs of the app script (src/app.py from line 1316) in one session, with *)
(* the cache of load_data shared with other sessions.  Here                *)
(*   pc       is "ready" (before load_data), "stopped" (st.stop() after a  *)
(*            load failure), "loaded" (before the upload is read),         *)
(*            "analysis" (the resume text is usable, before the button is  *)
(*            handled) or "done" (the run has ended)                       *)
(*   catalog  is the table in the cache of load_data, <<>> when the cache  *)
(*            holds none (nothing loaded yet, or the entry has expired)    *)
(* The cache of load_job_descriptions is not modelled: its entry is older  *)
(* than the entry of load_data made from it and has the same ttl, so it    *)
(* has expired whenever load_data runs its body again.  The two calls of   *)
(* extract_skills_advanced of the analysis (lines 1549-1551) change no     *)
(* state and are left out.                                                 *)
(***************************************************************************)
\* the tables load_data can return
LoadedTables == {LoadData(csv).value : csv \in {f \in CsvFiles : ~LoadData(f).stopped}}

NoFile == [file_type |-> "none", readable |-> FALSE, text |-> <<>>]

\* uploaded_file: none, a file the reader fails on, a type that is not
\* supported, a file of blank text, and two resumes
Uploads ==
    {NoFile,
     [file_type |-> "pdf", readable |-> FALSE, text |-> <<>>],
     [file_type |-> "png", readable |-> TRUE, text |-> txtPyAndSql],
     [file_type |-> "txt", readable |-> TRUE, text |-> txtBlank],
     [file_type |-> "txt", readable |-> TRUE, text |-> <<" ">> \o txtPyAndSql \o <<"\n">>],
     [file_type |-> "docx", readable |-> TRUE, text |-> txtJva]}

\* the backends of the two scoring calls of an analysis
RunBackends == {[fail |-> "similarity", cos |-> 0], [fail |-> "none", cos |-> 40]}

\* lines 1316-1325, given what load_data handed out: the write of the
\* display_title column goes to that object, and if the object is the
\* cached one the cached table has the column too
RunLoaded(got) ==
    /\ job_data' = JobData(WithDisplayTitles(got.table))
    /\ catalog' = IF got.shared THEN WithDisplayTitles(got.table) ELSE got.table
    /\ pc' = "loaded"

\* load_data() and the display titles: answered from the cache, or by running
\* the body on the CSV file as it is now; st.stop() ends the run
RunLoad ==
    /\ pc = "ready"
    /\ IF catalog # <<>>
       THEN RunLoaded(CacheData(catalog))
       ELSE \E csv \in CsvFiles :
               IF LoadData(csv).stopped
               THEN pc' = "stopped" /\ UNCHANGED <<catalog, job_data>>
               ELSE RunLoaded(CacheData(LoadData(csv).value))
    /\ UNCHANGED <<model_env, spacy_loaded, nlp, cache, last, calls, run_resume_text>>

\* lines 1357-1401 and the else branches of lines 1922 and 1935
RunUpload ==
    /\ pc = "loaded"
    /\ \E uploaded_file \in Uploads :
          IF uploaded_file = NoFile
          THEN pc' = "done" /\ UNCHANGED run_resume_text
          ELSE /\ run_resume_text' = ExtractTextFromResume(uploaded_file)
               /\ pc' = IF ResumeUsable(ExtractTextFromResume(uploaded_file))
                        THEN "analysis" ELSE "done"
    /\ UNCHANGED <<model_env, spacy_loaded, nlp, cache, catalog, last, calls, job_data>>

\* the state after the two scoring calls of the analysis, r the outcome of
\* calculate_comprehensive_score
Analysed(selected_job, r) ==
    /\ last' = [op |-> "calculate_comprehensive_score",
                args |-> <<run_resume_text, PyStr(selected_job.skills),
                           PyStr(selected_job.job_description)>>,
                result |-> r.result, docs |-> r.docs, failed |-> r.failed]
    /\ cache' = r.cache
    /\ calls' = calls + 2
    /\ pc' = "done"

\* lines 1479-1574 with the button clicked: get_match_score, then
\* calculate_comprehensive_score on the cache it left
Analyse(selected_job, be, be2) ==
    Analysed(selected_job,
        CalculateComprehensiveScore(
            GetMatchScore(cache, nlp, run_resume_text, PyStr(selected_job.skills), be).cache,
            nlp, run_resume_text, PyStr(selected_job.skills),
            PyStr(selected_job.job_description), be2))

RunAnalyse ==
    /\ pc = "analysis"
    /\ calls + 2 <= MaxCalls
    /\ \E job_role_display \in Range(job_roles(job_data)), be \in RunBackends,
          be2 \in RunBackends :
          Analyse(SelectedJob(job_data, job_role_display), be, be2)
    /\ UNCHANGED <<model_env, spacy_loaded, nlp, catalog, job_data, run_resume_text>>

\* the button is not clicked
RunSkip ==
    /\ pc = "analysis"
    /\ pc' = "done"
    /\ UNCHANGED <<model_env, spacy_loaded, nlp, cache, catalog, last, calls, job_data,
                   run_resume_text>>

\* the script runs again from the top
RunAgain ==
    /\ pc \in {"done", "stopped"}
    /\ calls + 2 <= MaxCalls
    /\ pc' = "ready"
    /\ job_data' = <<>>
    /\ run_resume_text' = PyNone
    /\ UNCHANGED <<model_env, spacy_loaded, nlp, cache, catalog, last, calls>>

\* ttl=3600: the entry of load_data expires
Expire ==
    /\ catalog # <<>>
    /\ catalog' = <<>>
    /\ UNCHANGED <<pc, model_env, spacy_loaded, nlp, cache, last, calls, job_data,
                   run_resume_text>>

\* a run of another session finds no entry and stores the table it loads
OtherSessionLoad ==
    /\ catalog = <<>>
    /\ \E table \in LoadedTables : catalog' = CacheData(table).table
    /\ UNCHANGED <<pc, model_env, spacy_loaded, nlp, cache, last, calls, job_data,
                   run_resume_text>>

RunNext ==
    \/ RunLoad
    \/ RunUpload
    \/ RunAnalyse
    \/ RunSkip
    \/ RunAgain
    \/ Expire
    \/ OtherSessionLoad

SpecRun == ScoreInit /\ [][RunNext]_vars

(***************************************************************************)
(* The claims.                                                             *)
(***************************************************************************)
IsScoreCall == last.op = "calculate_comprehensive_score"

IsMatchScoreCall == last.op = "get_match_score"

IsJobMatchCall == last.op = "calculate_resume_job_match"

\* the required skills parsed from the job skills argument of the last call
RequiredSkills == ParseSkills(StrOf(last.args[2]))

\* a str that is empty or whitespace only
Blank(v) == IsStr(v) /\ Strip(v.s) = <<>>

\* matched and missing skills together are the required skills, and share none
Partition(result, required) ==
    /\ Range(result.matched_skills) \cup Range(result.missing_skills) = Range(required)
    /\ Range(result.matched_skills) \cap Range(result.missing_skills) = {}

\* C1 (as amended): for a non-empty resume text and a non-empty job skills
\* string, the matched and the missing skills of the result partition the
\* required skills parsed from the string; when either string is empty both
\* lists are empty.
C1_SkillsPartitionRequired ==
    (IsScoreCall /\ IsStr(last.args[1]) /\ IsStr(last.args[2])) =>
        IF last.args[1].s # <<>> /\ last.args[2].s # <<>>
        THEN Partition(last.result, RequiredSkills)
        ELSE last.result.matched_skills = <<>> /\ last.result.missing_skills = <<>>

\* C1 as stated: the partition holds for every resume text and skills string.
C1_Original ==
    (IsScoreCall /\ IsStr(last.args[1]) /\ IsStr(last.args[2])) =>
        Partition(last.result, RequiredSkills)

C1_Witness ==
    /\ IsScoreCall
    /\ IsStr(last.args[1]) /\ IsStr(last.args[2])
    /\ last.result.matched_skills # <<>>
    /\ last.result.missing_skills # <<>>

\* skill_match_score is 0 exactly when nothing matched and 100 exactly when
\* nothing is missing
ScoreEnds(result) ==
    /\ result.skill_match_score = PyFloat(0) <=> result.matched_skills = <<>>
    /\ result.skill_match_score = PyFloat(10000) <=> result.missing_skills = <<>>

\* C2 (as amended): for a non-empty resume text and a skills string with at
\* least one required skill, skill_match_score is 0 iff matched_skills is
\* empty and 100 iff missing_skills is empty.
C2_ScoreEndsIffLists ==
    (IsScoreCall /\ IsStr(last.args[1]) /\ last.args[1].s # <<>>
        /\ IsStr(last.args[2]) /\ RequiredSkills # <<>>) =>
        ScoreEnds(last.result)

\* C2 as stated: the same for every resume text, the empty one included.
C2_Original ==
    (IsScoreCall /\ IsStr(last.args[1]) /\ IsStr(last.args[2]) /\ RequiredSkills # <<>>) =>
        ScoreEnds(last.result)

C2_Witness ==
    /\ IsScoreCall
    /\ IsStr(last.args[1]) /\ IsStr(last.args[2])
    /\ last.result.skill_match_score.n > 0
    /\ last.result.skill_match_score.n < 10000

\* C3 as stated: overall_score lies in [0, 100] and equals
\* round(0.6 * skill_match_score + 0.4 * context_match_score, 2) computed from
\* the two rounded scores of the same result.
C3_OverallFromReportedScores ==
    IsScoreCall =>
        /\ last.result.overall_score.n >= 0
        /\ last.result.overall_score.n <= 10000
        /\ last.result.overall_score.n =
              RoundHalfEven(6 * last.result.skill_match_score.n
                            + 4 * last.result.context_match_score.n, 10)

\* C4 (as amended): for an empty resume text and a skills string with at least
\* one required skill, the result has overall_score 0.0 and empty
\* matched_skills and missing_skills.
C4_EmptyResumeEmptyLists ==
    (IsScoreCall /\ last.args[1] = PyStr(<<>>) /\ IsStr(last.args[2])
        /\ RequiredSkills # <<>>) =>
        /\ last.result.overall_score = PyFloat(0)
        /\ last.result.matched_skills = <<>>
        /\ last.result.missing_skills = <<>>

\* C4 as stated: missing_skills is the full list of required skills.
C4_Original ==
    (IsScoreCall /\ last.args[1] = PyStr(<<>>) /\ IsStr(last.args[2])
        /\ RequiredSkills # <<>>) =>
        /\ last.result.overall_score = PyFloat(0)
        /\ last.result.matched_skills = <<>>
        /\ last.result.missing_skills = RequiredSkills

C4_Witness ==
    /\ IsScoreCall
    /\ last.args[1] = PyStr(<<>>)
    /\ IsStr(last.args[2])
    /\ Len(RequiredSkills) >= 2

\* C5 as stated: a missing, empty or non-string resume_text or job_skills gives
\* the complete zeroed result, with total_skills and matched_count present and 0.
C5_ZeroedCompleteResult ==
    (IsScoreCall /\ (\/ ~Truthy(last.args[1]) \/ ~Truthy(last.args[2])
                     \/ ~IsStr(last.args[1]) \/ ~IsStr(last.args[2]))) =>
        last.result = ExceptResult

\* C6 as stated: for a role of the catalog, an empty resume text or an empty
\* skills string of the job gives the zero result, not an error outcome.
C6_DegradesToZeroResult ==
    (IsJobMatchCall
        /\ GetJobDetails(last.args[2], catalog) # <<>>
        /\ \/ last.args[1] = PyStr(<<>>)
           \/ GetJobDetails(last.args[2], catalog)[1].skills = <<>>) =>
        /\ last.result.is_valid_job
        /\ last.result.overall_score = PyFloat(0)
        /\ last.result.skill_match_score = PyFloat(0)
        /\ last.result.context_match_score = PyFloat(0)
        /\ last.result.matched_skills = <<>>
        /\ last.result.missing_skills = <<>>

\* C7 as stated: when the language model cannot be loaded the app still starts
\* and serves requests (without the model); the import never fails.
C7_StartsWithoutModel ==
    (model_env \in {"missing", "broken"} /\ pc \notin {"ensure", "import"}) =>
        pc = "ready"

\* C8: get_match_score returns exactly 0.0 when either text is empty or
\* whitespace only, and gives no text to the language model in that call.
C8_BlankInputScoresZero ==
    (IsMatchScoreCall /\ (Blank(last.args[1]) \/ Blank(last.args[2]))) =>
        /\ last.result = PyFloat(0)
        /\ last.docs = <<>>

C8_Witness ==
    /\ IsMatchScoreCall
    /\ nlp = "loaded"
    /\ last.args[1] = PyStr(txtBlank)
    /\ last.args[2] = PyStr(txtPyDev)

\* C9 as stated: the score returned by get_match_score lies in [0, 100]
\* whatever cosine in [-1, 1] the backend returns.
C9_ScoreInRange ==
    IsMatchScoreCall => (last.result.n >= 0 /\ last.result.n <= 10000)

\* the position of the entry whose key is exactly this pair, 0 when none
ExactEntry(c, resume_text, job_desc) ==
    IF \E i \in DOMAIN c : c[i].key = <<resume_text, job_desc>>
    THEN CHOOSE i \in DOMAIN c : c[i].key = <<resume_text, job_desc>>
    ELSE 0

\* one call of get_match_score, seen from the cache before it
MemoizedCall ==
    LET resume_text == last'.args[1]
        job_desc == last'.args[2]
        i == ExactEntry(cache, resume_text, job_desc)
    IN  /\ (i # 0 /\ Truthy(resume_text) /\ Truthy(job_desc)) =>
              (last'.result = PyFloat(cache[i].val) /\ last'.docs = <<>>)
        /\ (i = 0) => (last'.docs # <<>> \/ last'.result = PyFloat(0))
        /\ (i = 0 /\ last'.docs # <<>>) =>
              cache'[1] = [key |-> <<resume_text, job_desc>>, val |-> last'.result.n]

\* C10: a call of get_match_score for a pair that has a cache entry returns
\* the value of that entry without invoking the model; a call for a pair with
\* no entry of exactly that pair never returns a cached value (it invokes the
\* model, or returns 0.0), and what the model computed is stored under the pair.
C10_Memoized ==
    [][(last'.op = "get_match_score" /\ calls' = calls + 1) => MemoizedCall]_vars

C10_Witness ==
    /\ IsMatchScoreCall
    /\ calls >= 2
    /\ last.docs = <<>>
    /\ last.result.n # 0

\* one call of get_match_score, seen from the cache before it: the pair of the
\* call becomes the most recently used entry, the other entries keep their
\* order, and an insertion into a full cache drops the entry at the least
\* recently used end
LruStep ==
    LET resume_text == last'.args[1]
        job_desc == last'.args[2]
        i == ExactEntry(cache, resume_text, job_desc)
    IN  IF ~Truthy(resume_text) \/ ~Truthy(job_desc) THEN cache' = cache
        ELSE IF i # 0
        THEN cache' = <<cache[i]>> \o SubSeq(cache, 1, i - 1)
                      \o SubSeq(cache, i + 1, Len(cache))
        ELSE IF last'.docs = <<>> THEN cache' = cache
        ELSE /\ cache'[1].key = <<resume_text, job_desc>>
             /\ Tail(cache') = IF Len(cache) < CACHE_SIZE THEN cache
                               ELSE SubSeq(cache, 1, Len(cache) - 1)

\* C11: the similarity cache never holds more than CACHE_SIZE (100) entries,
\* and it is kept in order of use: a call makes its pair the most recently
\* used entry, and a new pair inserted into a full cache evicts the least
\* recently used entry and no other.
C11_BoundedLru ==
    /\ [](Len(cache) <= CACHE_SIZE)
    /\ [][(last'.op = "get_match_score" /\ calls' = calls + 1) => LruStep]_vars

\* the cache is full, the oldest text was used again before the cache filled
\* and is kept, and the second oldest text has been evicted by an insertion
C11_Witness ==
    /\ IsMatchScoreCall
    /\ calls > CACHE_SIZE
    /\ Len(cache) = CACHE_SIZE
    /\ last.docs # <<>>
    /\ ExactEntry(cache, KeyText(0), PyStr(txtPyDev)) # 0
    /\ ExactEntry(cache, KeyText(1), PyStr(txtPyDev)) = 0

\* the skill fields of two results of calculate_comprehensive_score are equal
SameSkillResults(result, other) ==
    /\ result.matched_skills = other.matched_skills
    /\ result.missing_skills = other.missing_skills
    /\ result.skill_match_score = other.skill_match_score

\* two backends that do not raise
WorkingBackends == {be \in SessionBackends : be.fail = "none"}

\* C12: when the backend raises during calculate_comprehensive_score the call
\* returns the complete result: matched_skills, missing_skills and
\* skill_match_score are those of the same call with a working backend
\* (be its cosine positive or negative), and context_match_score is 0.0.
C12_SkillResultsSurviveFailure ==
    (IsScoreCall /\ last.failed) =>
        /\ DOMAIN last.result = DOMAIN ExceptResult
        /\ last.result.context_match_score = PyFloat(0)
        /\ \A be \in WorkingBackends :
              SameSkillResults(last.result,
                  CalculateComprehensiveScore(<<>>, "loaded", last.args[1], last.args[2],
                                              last.args[3], be).result)

\* the backend raised in a call that found one skill and missed another
C12_Witness ==
    /\ IsScoreCall
    /\ last.failed
    /\ last.result.matched_skills # <<>>
    /\ last.result.missing_skills # <<>>

IsRecommendCall == last.op = "generate_skill_recommendations"

\* C13: generate_skill_recommendations returns at most 5 recommendations for
\* every list of missing skills, of any length, and every job title.
C13_AtMostFive ==
    IsRecommendCall => Len(last.result) <= 5

\* more than five skills are missing, the title asks for a role advice, and
\* five recommendations are returned
C13_Witness ==
    /\ IsRecommendCall
    /\ Len(last.args[1]) > 5
    /\ last.args[2] = PyStr(<<"T","e","a","m"," ","L","e","a","d">>)
    /\ Len(last.result) = 5

RoleKinds == {"data", "coding", "leadership"}

\* the positions of the role-category suggestions in a list of recommendations
RolePositions(recs) == {i \in DOMAIN recs : recs[i].kind \in RoleKinds}

\* the category of the first keyword group that matches the lowercased title
ExpectedRoleKind(title) ==
    IF \E t \in Range(DataTerms) : Contains(StrLower(title), t) THEN "data"
    ELSE IF \E t \in Range(CodingTerms) : Contains(StrLower(title), t) THEN "coding"
    ELSE IF \E t \in Range(LeadTerms) : Contains(StrLower(title), t) THEN "leadership"
    ELSE "none"

\* C14: a role-category suggestion is present only when fewer than 5
\* skill-specific recommendations were produced; there is at most one, it is
\* the last entry, and its category is that of the first keyword group
\* matching the lowercased job title, in the order data, coding, leadership;
\* with 1 to 4 missing skills and a title matching a group it is present.
C14_RoleAdviceLastFirstGroup ==
    IsRecommendCall =>
        /\ Cardinality(RolePositions(last.result)) <= 1
        /\ \A i \in RolePositions(last.result) :
              /\ i = Len(last.result)
              /\ Len(last.args[1]) < 5
              /\ IsStr(last.args[2])
              /\ last.result[i].kind = ExpectedRoleKind(last.args[2].s)
        /\ (/\ Len(last.args[1]) \in 1..4
            /\ IsStr(last.args[2])
            /\ ExpectedRoleKind(last.args[2].s) # "none") =>
                RolePositions(last.result) # {}

\* "Data Engineer", which matches the data and the coding group, gets the
\* data-analysis advice after four skill recommendations
C14_Witness ==
    /\ IsRecommendCall
    /\ last.args[2] = PyStr(<<"D","a","t","a"," ","E","n","g","i","n","e","e","r">>)
    /\ Len(last.args[1]) = 4
    /\ Len(last.result) = 5
    /\ last.result[5].kind = "data"

\* the positions in the mapping of the entries whose key is a substring of the
\* lowercased skill or contains it
MatchingKeysOf(skill_lower) ==
    {k \in DOMAIN skill_resources :
        \/ Contains(skill_lower, skill_resources[k])
        \/ Contains(skill_resources[k], skill_lower)}

\* rec names the skill and carries the resource of the first of the matching
\* entries, or is the generic suggestion when there is none
RecommendsSkill(rec, skill, matching) ==
    /\ rec.skill = skill
    /\ rec.kind = "generic" <=> matching = {}
    /\ matching # {} =>
          /\ rec.kind = "resource"
          /\ \E k \in matching :
                rec.key = skill_resources[k] /\ \A j \in matching : k <= j

\* C15: for each i up to min(5, number of missing skills) the i-th
\* recommendation names the i-th missing skill, carries the resource of the
\* first entry of the mapping (in mapping order) whose key is a substring of
\* the lowercased skill or contains it, and is the generic suggestion exactly
\* when no entry matches in either direction.
C15_SkillRecommendationPerSkill ==
    IsRecommendCall =>
        /\ Len(last.result) >= Min(5, Len(last.args[1]))
        /\ \A i \in 1..Min(5, Len(last.args[1])) :
              RecommendsSkill(last.result[i], last.args[1][i],
                              MatchingKeysOf(StrLower(last.args[1][i])))

\* a skill that holds two keys gets the resource of the earlier key, a skill
\* that is a part of a key gets the resource of that key, and an unknown
\* skill gets the generic suggestion
C15_Witness ==
    /\ IsRecommendCall
    /\ Len(last.args[1]) = 3
    /\ last.args[1] = <<skNodeReact, skJava, txtCobol>>
    /\ last.result[1].key = <<"r","e","a","c","t">>
    /\ last.result[2].key = <<"j","a","v","a","s","c","r","i","p","t">>
    /\ last.result[3].kind = "generic"

\* two results of calculate_resume_job_match have the same fields and agree
\* on every field but suggested_roles
SameButSuggestedRoles(a, b) ==
    /\ DOMAIN a = DOMAIN b
    /\ \A k \in DOMAIN a \ {"suggested_roles"} : a[k] = b[k]

\* C16: two runs of calculate_resume_job_match in a session with identical
\* resume text and job role (the catalog is that of the session) return
\* identical scores, matched_skills, missing_skills and recommendations,
\* whatever roles the random sampling draws in each run: no field but
\* suggested_roles differs.
C16_DeterministicButSuggestedRoles ==
    [][(/\ IsJobMatchCall
        /\ last'.op = "calculate_resume_job_match"
        /\ calls' = calls + 1
        /\ last'.args = last.args) =>
            SameButSuggestedRoles(last.result, last'.result)]_vars

\* a later run for a role of the catalog whose context score is not 0 and was
\* computed by no call of the backend in this run: the pair of texts was
\* scored by an earlier call
C16_Witness ==
    /\ IsJobMatchCall
    /\ calls >= 2
    /\ last.result.is_valid_job
    /\ last.result.matched_skills # <<>>
    /\ last.result.context_match_score.n # 0
    /\ last.docs = <<>>

\* the position of the k-th comma of text; 0 for k = 0 and Len(text) + 1 when
\* text has fewer than k commas
CommaAt(text, k) ==
    LET commas == {i \in DOMAIN text : text[i] = ","}
    IN  IF k = 0 THEN 0
        ELSE IF k > Cardinality(commas) THEN Len(text) + 1
        ELSE CHOOSE i \in commas : Cardinality({j \in commas : j < i}) = k - 1

\* the comma-separated tokens of text, each trimmed of surrounding whitespace
TrimmedTokens(text) ==
    [k \in 1..(Cardinality({i \in DOMAIN text : text[i] = ","}) + 1) |->
        Strip(SubSeq(text, CommaAt(text, k - 1) + 1, CommaAt(text, k) - 1))]

NonEmptyToken(token) == token # <<>>

\* the required list is the trimmed tokens of the skills string without the
\* empty ones, in their order and casing
ParsedAsTokens(required, text) ==
    /\ required = SelectSeq(TrimmedTokens(text), NonEmptyToken)
    /\ \A i \in DOMAIN required : required[i] # <<>>

\* C17 (as amended): the required skills parsed from a job skills string are
\* its comma-separated tokens, trimmed, without the empty ones, in the
\* original order and casing; matched_skills and missing_skills hold such
\* tokens only, and when the resume text and the skills string are non-empty
\* strings total_skills is the length of the required list.
C17_ParsedTokens ==
    (IsScoreCall /\ IsStr(last.args[2])) =>
        /\ ParsedAsTokens(RequiredSkills, last.args[2].s)
        /\ Range(last.result.matched_skills) \cup Range(last.result.missing_skills)
              \subseteq Range(SelectSeq(TrimmedTokens(last.args[2].s), NonEmptyToken))
        /\ (IsStr(last.args[1]) /\ Truthy(last.args[1]) /\ Truthy(last.args[2])) =>
              /\ "total_skills" \in DOMAIN last.result
              /\ last.result.total_skills = PyInt(Len(RequiredSkills))

\* C17 as stated: total_skills is the length of the required list for every
\* call with a job skills string.
C17_Original ==
    (IsScoreCall /\ IsStr(last.args[2])) =>
        /\ ParsedAsTokens(RequiredSkills, last.args[2].s)
        /\ "total_skills" \in DOMAIN last.result
        /\ last.result.total_skills = PyInt(Len(RequiredSkills))

\* the skills string "Py,, SQL " scored against a resume: two required skills
C17_Witness ==
    /\ IsScoreCall
    /\ last.args[1] = PyStr(txtPyAndSql)
    /\ last.args[2] = PyStr(<<"P","y",",",","," ","S","Q","L"," ">>)
    /\ last.result.total_skills = PyInt(2)
    /\ last.result.matched_skills = <<(<<"P","y">>), <<"S","Q","L">>>>

\* the lowercased skill occurs in the lowercased resume, or some
\* whitespace-delimited resume word longer than 2 has a ratio to it above 0.8
OccursOrResembles(skill_lower, resume_text_lower) ==
    \/ Contains(resume_text_lower, skill_lower)
    \/ \E word \in Range(SplitWhitespace(resume_text_lower)) :
          /\ Len(word) > 2
          /\ RatioAbove(Ratio(skill_lower, word), 8, 10)

\* matched is the list of the required skills that occur or resemble, each
\* taken once at its place in the required list
MatchedInOrder(matched, required, resume_text_lower) ==
    matched = SelectSeq(required,
                        LAMBDA skill : OccursOrResembles(StrLower(skill), resume_text_lower))

\* C18: a required skill is in matched_skills if and only if its lowercased
\* form occurs in the lowercased resume, or some whitespace-delimited resume
\* word of length greater than 2 has a similarity ratio to it strictly
\* greater than 0.8; every entry of the required list contributes at most one
\* entry, in required-list order.
C18_MatchedIffOccursOrResembles ==
    (IsScoreCall /\ IsStr(last.args[1]) /\ IsStr(last.args[2])) =>
        MatchedInOrder(last.result.matched_skills, RequiredSkills,
                       StrLower(last.args[1].s))

\* "Java" is matched by the word "jva" of the resume alone, and another
\* required skill is not matched
C18_Witness ==
    /\ IsScoreCall
    /\ last.args[1] = PyStr(txtJva)
    /\ last.result.matched_skills = <<skJava>>
    /\ last.result.missing_skills # <<>>

\* the lowercased resume contains the lowercased form of every entry
ContainsEvery(resume_text, required) ==
    \A i \in DOMAIN required : Contains(StrLower(resume_text), StrLower(required[i]))

\* the result of a run that found every required skill
FullMatch(result) ==
    /\ result.is_valid_job
    /\ result.missing_skills = <<>>
    /\ result.skill_match_score = PyFloat(10000)
    /\ result.recommendations = <<>>

\* C19: when the resume contains every required skill of the job verbatim
\* (case-insensitively) and the required list is not empty, the run reports
\* missing_skills = [] and skill_match_score = 100.0 from
\* calculate_comprehensive_score, and generate_skill_recommendations on that
\* missing list returns [], whatever the job title.
C19_FullMatchNoRecommendations ==
    (IsJobMatchCall /\ IsStr(last.args[1])
        /\ ParseSkills(catalog[1].skills) # <<>>
        /\ ContainsEvery(last.args[1].s, ParseSkills(catalog[1].skills))) =>
        FullMatch(last.result)

\* a resume holding both required skills, in another casing, for a job whose
\* title asks for a role advice
C19_Witness ==
    /\ IsJobMatchCall
    /\ last.args[1] = PyStr(txtJavascript)
    /\ last.args[2] = PyStr(<<"D","a","t","a"," ","E","n","g","i","n","e","e","r">>)
    /\ Len(last.result.matched_skills) = 2
    /\ last.result.matched_skills[1] # last.result.matched_skills[2]
    /\ last.result.skill_match_score = PyFloat(10000)
    /\ last.result.recommendations = <<>>

\* no entry of the list occurs at two positions
NoDuplicates(list) ==
    \A i, j \in DOMAIN list : i # j => list[i] # list[j]

\* C20 as stated: no skill label appears twice in matched_skills or in
\* missing_skills, also when the job skills string repeats a skill.
C20_NoDuplicateSkills ==
    IsScoreCall =>
        /\ NoDuplicates(last.result.matched_skills)
        /\ NoDuplicates(last.result.missing_skills)

IsAdvancedCall == last.op = "extract_skills_advanced"

IsExtractCall == last.op = "extract_skills"

\* C21 as stated: two calls of extract_skills_advanced on the same text, in
\* the same or in different runs of the program, return the same sequence in
\* the same order.
C21_SameOrderInEveryRun ==
    [][(IsAdvancedCall /\ last'.op = "extract_skills_advanced"
        /\ last'.args[1] = last.args[1]) =>
            last'.result.value = last.result.value]_vars

\* C22 as stated: extract_skills and extract_skills_advanced return an empty
\* list and raise no exception whenever an input is empty or is not a string.
C22_EmptyListForBadInput ==
    /\ (IsAdvancedCall /\ (~Truthy(last.args[1]) \/ ~IsStr(last.args[1]))) =>
          (~last.result.raised /\ last.result.value = <<>>)
    /\ (IsExtractCall /\ (\/ ~Truthy(last.args[1]) \/ ~IsStr(last.args[1])
                           \/ ~Truthy(last.args[2]) \/ ~IsStr(last.args[2]))) =>
          (~last.result.raised /\ last.result.value = <<>>)

\* the vocabulary terms that are whole tokens of the lowercased text, tokens
\* being delimited by whitespace or by the ends of the text
TokenTerms(text) ==
    {i \in DOMAIN skill_patterns :
        InList(StrLower(skill_patterns[i]), SplitWhitespace(StrLower(text)))}

\* C27 as stated: every vocabulary term that occurs in the lowercased text as
\* a whole token delimited by whitespace or the ends of the text is returned
\* title-cased by extract_skills_advanced, 'c++' and 'c#' included.
C27_TokenTermsReturned ==
    (IsAdvancedCall /\ IsStr(last.args[1])) =>
        \A i \in TokenTerms(last.args[1].s) :
            InList(StrTitle(skill_patterns[i]), last.result.value)

\* the text the claim names as the basis of the context match of the last
\* call: the description when one is provided and non-empty, else the required
\* skills joined by single spaces (none when no skills string is given)
ContextBasis ==
    IF Truthy(last.args[3]) THEN last.args[3]
    ELSE IF Truthy(last.args[2]) THEN PyStr(JoinSpace(RequiredSkills))
    ELSE PyStr(<<>>)

\* a pair of texts whose similarity is 0.0 whatever the backend does: a text
\* that is empty, blank or not a string
NoSimilarity(resume_text, basis) ==
    \/ ~IsStr(resume_text) \/ Blank(resume_text)
    \/ ~IsStr(basis) \/ Blank(basis)

\* context_match_score of the last call is the similarity of the resume text
\* with the basis: either the one entry the call left in the cache is that
\* pair with that score, or the call left no entry, the score is 0.0 and the
\* similarity of the pair is 0.0 whatever the backend does
ContextIsSimilarityOfBasis ==
    \/ cache = <<[key |-> <<last.args[1], ContextBasis>>,
                  val |-> last.result.context_match_score.n]>>
    \/ /\ cache = <<>>
       /\ last.result.context_match_score = PyFloat(0)
       /\ NoSimilarity(last.args[1], ContextBasis)

\* C26, amended: for a non-empty resume text and a non-empty job skills
\* string, context_match_score is the similarity of the resume text with the
\* job description when a non-empty description is provided, and otherwise
\* with the required skills joined by single spaces.
C26_ContextBasis ==
    (IsScoreCall /\ Truthy(last.args[1]) /\ Truthy(last.args[2])) =>
        ContextIsSimilarityOfBasis

\* C26 as stated: in every call of calculate_comprehensive_score,
\* context_match_score is the similarity of the resume text with the job
\* description whenever a non-empty description is provided, and otherwise
\* with the required skills joined by single spaces.
C26_Original ==
    IsScoreCall => ContextIsSimilarityOfBasis

\* a call with a description whose context score is the backend's 33.34 for
\* the resume and the description, not for the joined skills
C26_Witness ==
    /\ IsScoreCall
    /\ last.args[1] = PyStr(txtPyAndSql)
    /\ last.args[2] = PyStr(<<"J","a","v","a">>)
    /\ last.args[3] = PyStr(txtPyDev)
    /\ last.result.context_match_score = PyFloat(3334)
    /\ cache[1].key = <<PyStr(txtPyAndSql), PyStr(txtPyDev)>>

\* the result dict carries total_skills and matched_count
HasCountFields(result) ==
    {"total_skills", "matched_count"} \subseteq DOMAIN result

\* sub is seq with some of its entries left out, the others in their order
RECURSIVE IsSubsequence(_, _)
IsSubsequence(sub, seq) ==
    IF sub = <<>> THEN TRUE
    ELSE IF seq = <<>> THEN FALSE
    ELSE IF sub[1] = seq[1] THEN IsSubsequence(Tail(sub), Tail(seq))
    ELSE IsSubsequence(sub, Tail(seq))

\* the counts of a result agree with its lists and with the required list
CountsAgree(result, required) ==
    /\ IsSubsequence(result.matched_skills, required)
    /\ result.total_skills = PyInt(Len(required))
    /\ result.matched_count = PyInt(Len(result.matched_skills))
    /\ result.matched_count.n + Len(result.missing_skills) = result.total_skills.n
    /\ result.skill_match_score.n <= 10000

\* C29, amended: in every result of calculate_comprehensive_score for a
\* resume text that is a string, if the result carries the count fields then
\* matched_skills is an order-preserving sub-sequence of the required list,
\* total_skills is the length of the required list, matched_count the length
\* of matched_skills, matched_count plus the length of missing_skills is
\* total_skills, and skill_match_score is at most 100; the error result of a
\* resume that is not a string carries the count fields with value 0 and
\* empty lists, whatever the required list is.
C29_CountsAgree ==
    (IsScoreCall /\ HasCountFields(last.result)) =>
        IF IsStr(last.args[1]) THEN CountsAgree(last.result, RequiredSkills)
        ELSE CountsAgree(last.result, <<>>)

\* C29 as stated: in every result that carries the count fields,
\* matched_skills is an order-preserving sub-sequence of the required list,
\* total_skills equals the length of the required list, matched_count the
\* length of matched_skills, matched_count plus the length of missing_skills
\* equals total_skills, and skill_match_score never exceeds 100.
C29_Original ==
    (IsScoreCall /\ HasCountFields(last.result)) =>
        CountsAgree(last.result, RequiredSkills)

\* a skills string that repeats a matched skill around a missing one
C29_Witness ==
    /\ IsScoreCall
    /\ last.args[1] = PyStr(txtPyAndSql)
    /\ last.args[2] = PyStr(<<"P","y",",","J","a","v","a",",","P","y">>)
    /\ last.result.matched_skills = << <<"P","y">>, <<"P","y">> >>
    /\ last.result.missing_skills = << <<"J","a","v","a">> >>
    /\ last.result.total_skills = PyInt(3)
    /\ last.result.matched_count = PyInt(2)

\* the rows of the catalog whose title is the role, both trimmed and lowercased
TitleHits(role) ==
    {i \in DOMAIN catalog :
        StrLower(Strip(catalog[i].job_title)) = StrLower(Strip(role.s))}

\* the role is one validate_job_role accepts: a non-empty string that is the
\* title of a row
RoleInCatalog(role) == IsStr(role) /\ Truthy(role) /\ TitleHits(role) # {}

\* the first row of the catalog with the title of the role
FirstRowOf(role) == catalog[CHOOSE i \in TitleHits(role) : \A j \in TitleHits(role) : i <= j]

\* the scores are None and the three lists are empty
NoMatchResult(result) ==
    /\ result.overall_score = PyNone
    /\ result.skill_match_score = PyNone
    /\ result.context_match_score = PyNone
    /\ result.matched_skills = <<>>
    /\ result.missing_skills = <<>>
    /\ result.recommendations = <<>>

\* C28: calculate_resume_job_match validates before it scores: a call that
\* computed a similarity, filled the cache or made recommendations is a call
\* for a role that validate_job_role accepts and get_job_details finds;
\* whenever the result has is_valid_job false the three scores are None and
\* matched_skills, missing_skills and recommendations are empty; and whenever
\* the role is valid the job found is the first catalog row with that title,
\* trimmed and case-insensitive.
C28_ValidatesBeforeScoring ==
    IsJobMatchCall =>
        /\ (cache # <<>> \/ last.docs # <<>> \/ last.result.recommendations # <<>>
                \/ last.result.is_valid_job) => RoleInCatalog(last.args[2])
        /\ ~last.result.is_valid_job => NoMatchResult(last.result)
        /\ RoleInCatalog(last.args[2]) =>
              \/ /\ last.result.is_valid_job
                 /\ last.result.job_details = FirstRowOf(last.args[2])
              \/ /\ ~last.result.is_valid_job
                 /\ last.result.validation_message = "error_processing"

\* a valid role whose title two rows share: the job scored is the first of
\* them, not the later one
C28_Witness ==
    /\ IsJobMatchCall
    /\ catalog = <<rowDataDevTwo, rowDataDev>>
    /\ last.args[2] = PyStr(<<"d","a","t","a"," ","d","e","v">>)
    /\ last.result.is_valid_job
    /\ last.result.job_details = rowDataDevTwo
    /\ last.docs # <<>>

\* a call of get_match_score in which the similarity computation failed:
\* it returns 0.0 and leaves the pair in the cache with the value 0.0
FailureStored ==
    /\ last'.result = PyFloat(0)
    /\ cache' # <<>>
    /\ cache'[1] = [key |-> <<last'.args[1], last'.args[2]>>, val |-> 0]

\* a call of get_match_score for a pair whose cache entry holds 0.0: it
\* returns 0.0, gives no text to the model, and the entry stays
ZeroEntryServed ==
    LET resume_text == last'.args[1]
        job_desc == last'.args[2]
        i == ExactEntry(cache, resume_text, job_desc)
    IN  (i # 0 /\ cache[i].val = 0 /\ Truthy(resume_text) /\ Truthy(job_desc)) =>
            /\ last'.result = PyFloat(0)
            /\ last'.docs = <<>>
            /\ ~last'.failed
            /\ cache'[1] = [key |-> <<resume_text, job_desc>>, val |-> 0]

\* C30: a similarity computation that fails inside get_similarity_score
\* returns 0.0 and the 0.0 is stored in the cache like a successful result;
\* every later call of get_match_score with the same pair, while the entry is
\* cached, returns 0.0 without invoking the model, whatever the backend
\* would do now.
C30_FailureIsCached ==
    [][(last'.op = "get_match_score" /\ calls' = calls + 1) =>
          /\ last'.failed => FailureStored
          /\ ZeroEntryServed]_vars

\* a second call for two non-blank texts answered 0.0 from the cache, with the
\* model loaded: the first one failed (no backend of the sessions computes
\* 0.0 for such texts)
C30_Witness ==
    /\ IsMatchScoreCall
    /\ nlp = "loaded"
    /\ calls >= 2
    /\ last.args = <<PyStr(txtPyAndSql), PyStr(txtPyDev)>>
    /\ last.result = PyFloat(0)
    /\ last.docs = <<>>
    /\ ~last.failed
    /\ cache # <<>>
    /\ cache[1] = [key |-> <<PyStr(txtPyAndSql), PyStr(txtPyDev)>>, val |-> 0]

IsLoaderCall == last.op = "load_job_descriptions"

\* C23 as stated: every row of the catalog returned by load_job_descriptions
\* has a non-empty job_title, a non-empty skills string and a non-empty
\* job_description after trimming.
C23_LoadedRowsComplete ==
    (IsLoaderCall /\ last.result.raised = "") =>
        \A i \in DOMAIN last.result.value :
            /\ Strip(last.result.value[i].job_title) # <<>>
            /\ Strip(last.result.value[i].skills) # <<>>
            /\ Strip(last.result.value[i].job_description) # <<>>

\* a str with a character that is not whitespace
HasText(v) == IsStr(v) /\ \E i \in DOMAIN v.s : ~IsSpace(v.s[i])

\* the run has a loaded catalog and a non-empty resume text
ReadyToScore == job_data # <<>> /\ HasText(run_resume_text)

\* a step of a run: it makes scoring calls only from the analysis of a run
\* that is ready, on the resume text of the run; a run that has stopped or
\* ended makes none, and a file that yields no text ends the run
ScoringStep ==
    /\ (calls' # calls) =>
          (pc = "analysis" /\ ReadyToScore /\ last'.args[1] = run_resume_text)
    /\ (pc \in {"stopped", "done"}) => (calls' = calls)
    /\ (pc = "loaded" /\ pc' # "loaded" /\ ~HasText(run_resume_text')) =>
          (pc' = "done" /\ calls' = calls)

\* C24: in every run of the application a scoring call happens only after the
\* catalog was loaded and the uploaded file yielded non-empty resume text,
\* and is made on that text; a run that stopped on a load failure, or that
\* ended on an unreadable file, makes no scoring call.
C24_ScoringOnlyWhenReady ==
    /\ [](pc = "analysis" => ReadyToScore)
    /\ [](pc = "stopped" => (job_data = <<>> /\ last = NoCall))
    /\ [][ScoringStep]_vars

\* an analysis of a resume against a job of a catalog of two rows
C24_Witness ==
    /\ pc = "done"
    /\ IsScoreCall
    /\ calls = 2
    /\ run_resume_text = PyStr(txtPyAndSql)
    /\ last.args[1] = PyStr(txtPyAndSql)
    /\ Len(job_data) = 2

\* the tables a run can hold: a table load_data returned, with the display
\* titles of the run, sorted
RunTables == {JobData(WithDisplayTitles(table)) : table \in LoadedTables}

\* a run between its load and its end
InFlight == pc \in {"loaded", "analysis"}

\* a step never writes into the cached table: the cache changes only by
\* losing its entry or by getting a table when it holds none; a run in
\* flight keeps the table it loaded; and an analysis scores a row of it
CatalogStep ==
    /\ (catalog' # catalog) => (catalog = <<>> \/ catalog' = <<>>)
    /\ (InFlight /\ pc' # "ready") => (job_data' = job_data)
    /\ (calls' # calls) =>
          \E i \in DOMAIN job_data :
              /\ last'.args[2] = PyStr(job_data[i].skills)
              /\ last'.args[3] = PyStr(job_data[i].job_description)

\* C25: the shared job catalog is never mutated in place after load: what
\* the cache holds is always a whole table that load_data returned, no step
\* of an analysis (the title formatting and sorting of the run included)
\* changes it, a reload puts a new table in the place of the expired one, and
\* the table of a run in flight stays one complete version of the catalog
\* whatever happens to the cache.
C25_CatalogNeverMutated ==
    /\ [](catalog = <<>> \/ catalog \in LoadedTables)
    /\ [](InFlight => job_data \in RunTables)
    /\ [][CatalogStep]_vars

\* a run in flight, about to analyse, while the cache already holds another
\* version of the catalog than the one the run loaded
C25_Witness ==
    /\ pc = "analysis"
    /\ catalog # <<>>
    /\ Len(job_data) = 2
    /\ job_data # JobData(WithDisplayTitles(catalog))

====
